---- MODULE Spec2Model ----
(***************************************************************************)
(* A model of cst_modeling/foil.py: the CST curve and airfoil engine       *)
(* (cst_curve, cst_foil), its geometry primitives (find_circle_3p,         *)
(* curve_curvature, interplot_from_curve), the bump perturbation           *)
(* (add_bump, foil_bump_modify) and the rule checker (check_valid).        *)
(*                                                                         *)
(* The functions are pure, so each specification draws the arguments of    *)
(* one function from a bounded set (Init) and applies the function in one  *)
(* step (pc goes from "call" to "done").  The classes Section and          *)
(* OpenSection hold arrays by reference: their specifications keep the     *)
(* arrays in a heap and run a bounded number of method calls and of        *)
(* in-place changes by the caller.                                         *)
(*                                                                         *)
(* Numbers.  The code computes in numpy float64.  The model computes in a  *)
(* decimal floating point of Digits significant digits with an unbounded   *)
(* exponent: a number is a pair <<m, e>> standing for m * 10^e, with       *)
(* 10^(Digits-1) <= |m| < 10^Digits, or <<0, 0>> for zero.  Every          *)
(* operation rounds its exact result to Digits digits, as IEEE arithmetic  *)
(* rounds to 53 bits; division by zero gives inf or nan as numpy does.     *)
(* Arrays are sequences: the code's y[i] is the model's y[i+1].            *)
(***************************************************************************)
EXTENDS Integers, Sequences, FiniteSets, TLC

VARIABLES
  pc,    \* "call" before the call of a function, "done" after it
  args,  \* the arguments of the call; the last call, for the classes
  ret,   \* what the call returned, or the exception it raised
  heap,  \* the arrays allocated so far: heap[k] is the array at address k
  sec,   \* the Section and OpenSection objects, by name
  own,   \* the addresses of the arrays that the caller holds
  hist   \* the number of method calls and of in-place changes so far

objs == <<heap, sec, own, hist>>

vars == <<pc, args, ret, heap, sec, own, hist>>

\* a specification of one function call has no objects
NoObjects ==
  /\ heap = <<>>
  /\ sec = <<>>
  /\ own = <<>>
  /\ hist = [calls |-> 0, writes |-> 0]

----------------------------------------------------------------------------
(* Floating point                                                          *)

Digits == 4

\* 10^Digits and 10^(Digits-1)
MantMax == 10000

MantMin == 1000

Abs(a) == IF a < 0 THEN -a ELSE a

Sgn(a) == IF a < 0 THEN -1 ELSE IF a > 0 THEN 1 ELSE 0

RECURSIVE Pow10(_)
Pow10(k) == IF k = 0 THEN 1 ELSE 10 * Pow10(k - 1)

\* a / b rounded to the nearest integer, ties away from zero (b # 0)
RoundDiv(a, b) == Sgn(a) * Sgn(b) * ((2 * Abs(a) + Abs(b)) \div (2 * Abs(b)))

NaN == <<0, 999>>

PInf == <<1, 999>>

NInf == <<-1, 999>>

IsFin(a) == a[2] # 999

IsInf(a) == a[2] = 999 /\ a[1] # 0

\* m * 10^e rounded to Digits digits, in canonical form
RECURSIVE Norm(_, _)
Norm(m, e) ==
  IF m = 0 THEN <<0, 0>>
  ELSE IF m >= MantMax \/ -m >= MantMax THEN Norm(RoundDiv(m, 10), e + 1)
  ELSE IF m < MantMin /\ -m < MantMin THEN Norm(m * 10, e - 1)
  ELSE <<m, e>>

Zero == <<0, 0>>

One == <<1000, -3>>

Two == <<2000, -3>>

Half == <<5000, -4>>

FSgn(a) == Sgn(a[1])

FNeg(a) == <<-a[1], a[2]>>

FAbs(a) == <<Abs(a[1]), a[2]>>

\* a + b for finite non-zero a, b with a[2] >= b[2]: the smaller operand is
\* absorbed when it lies below a tenth of the last digit of the larger one
AddAligned(a, b) ==
  IF a[2] - b[2] > Digits THEN a ELSE Norm(a[1] * Pow10(a[2] - b[2]) + b[1], b[2])

FAdd(a, b) ==
  IF a = NaN \/ b = NaN THEN NaN
  ELSE IF IsInf(a) THEN (IF IsInf(b) /\ b # a THEN NaN ELSE a)
  ELSE IF IsInf(b) THEN b
  ELSE IF a[1] = 0 THEN b
  ELSE IF b[1] = 0 THEN a
  ELSE IF a[2] >= b[2] THEN AddAligned(a, b)
  ELSE AddAligned(b, a)

FSub(a, b) == FAdd(a, FNeg(b))

FMul(a, b) ==
  IF a = NaN \/ b = NaN THEN NaN
  ELSE IF IsInf(a) \/ IsInf(b)
       THEN (IF a[1] = 0 \/ b[1] = 0 THEN NaN
             ELSE IF (a[1] > 0) = (b[1] > 0) THEN PInf ELSE NInf)
  ELSE Norm(a[1] * b[1], a[2] + b[2])

\* numpy division: x/0 is inf or nan (a warning, no exception)
FDiv(a, b) ==
  IF a = NaN \/ b = NaN THEN NaN
  ELSE IF IsInf(a)
       THEN (IF IsInf(b) THEN NaN
             ELSE IF (a[1] > 0) = (b[1] >= 0) THEN PInf ELSE NInf)
  ELSE IF IsInf(b) THEN Zero
  ELSE IF b[1] = 0
       THEN (IF a[1] = 0 THEN NaN ELSE IF a[1] > 0 THEN PInf ELSE NInf)
  ELSE Norm(RoundDiv(a[1] * 100000, b[1]), a[2] - b[2] - (Digits + 1))

\* the sign of a - b: -1, 0, 1, or 2 when a or b is nan
Cmp(d) == IF d = NaN THEN 2 ELSE Sgn(d[1])

\* comparisons: every comparison with nan is false
FLt(a, b) == Cmp(FSub(a, b)) = -1

FEq(a, b) == a # NaN /\ b # NaN /\ a = b

FLe(a, b) == FEq(a, b) \/ Cmp(FSub(a, b)) = -1

FGt(a, b) == Cmp(FSub(a, b)) = 1

FGe(a, b) == FEq(a, b) \/ Cmp(FSub(a, b)) = 1

\* Python's max(a, b): b if b > a else a
FMax2(a, b) == IF FGt(b, a) THEN b ELSE a

FSq(a) == FMul(a, a)

\* np.power(x, i) for a natural exponent i (0^0 = 1), by repeated squaring
RECURSIVE FPow(_, _)
FPow(a, i) ==
  IF i = 0 THEN One
  ELSE IF i = 1 THEN a
  ELSE IF i % 2 = 0 THEN FSq(FPow(a, i \div 2))
  ELSE FMul(a, FPow(a, i - 1))

\* the largest r with r * r <= n, for lo * lo <= n < hi * hi
RECURSIVE ISqrt(_, _, _)
ISqrt(n, lo, hi) ==
  IF hi - lo <= 1 THEN lo
  ELSE IF ((lo + hi) \div 2) * ((lo + hi) \div 2) <= n THEN ISqrt(n, (lo + hi) \div 2, hi)
  ELSE ISqrt(n, lo, (lo + hi) \div 2)

\* the square root of m * 10^e for m > 0, with k = Digits or Digits + 1 more
\* digits so that e - k is even
SqrtShifted(m, e, k) == Norm(ISqrt(m * Pow10(k), 0, 40000), (e - k) \div 2)

\* np.sqrt, np.power(x, 0.5): nan for a negative argument
FSqrt(a) ==
  IF a = NaN \/ a[1] < 0 THEN NaN
  ELSE IF a = PInf THEN PInf
  ELSE IF a[1] = 0 THEN Zero
  ELSE SqrtShifted(a[1], a[2], IF (a[2] - Digits) % 2 = 0 THEN Digits ELSE Digits + 1)

Pi == <<3142, -3>>

HalfPi == <<1571, -3>>

\* sum of the cosine series from term k on; term = (-1)^k z^(2k) / (2k)!
RECURSIVE CosSeries(_, _, _)
CosSeries(z2, k, term) ==
  IF k > 6 THEN Zero
  ELSE FAdd(term,
            CosSeries(z2, k + 1,
                      FNeg(FDiv(FMul(term, z2), Norm((2 * k + 1) * (2 * k + 2), 0)))))

\* cos z for 0 <= z <= pi/2
CosReduced(z) == CosSeries(FMul(z, z), 0, One)

\* np.cos on [0, pi]
FCos(z) == IF FGt(z, HalfPi) THEN FNeg(CosReduced(FSub(Pi, z))) ELSE CosReduced(z)

\* sum of the sine series from term k on; term = (-1)^k z^(2k+1) / (2k+1)!
RECURSIVE SinSeries(_, _, _)
SinSeries(z2, k, term) ==
  IF k > 6 THEN Zero
  ELSE FAdd(term,
            SinSeries(z2, k + 1,
                      FNeg(FDiv(FMul(term, z2), Norm((2 * k + 2) * (2 * k + 3), 0)))))

\* sin z for 0 <= z <= pi/2
SinReduced(z) == SinSeries(FMul(z, z), 0, z)

\* np.sin on [0, pi]
FSin(z) ==
  IF z = NaN \/ IsInf(z) THEN NaN
  ELSE SinReduced(IF FGt(z, HalfPi) THEN FSub(Pi, z) ELSE z)

Ln10 == <<2303, -3>>

Ln2 == <<6931, -4>>

\* the integer floor of a finite number of magnitude below 10^Digits
Floor(a) ==
  IF a[2] >= 0 THEN a[1] * Pow10(a[2])
  ELSE IF -a[2] > Digits THEN (IF a[1] < 0 THEN -1 ELSE 0)
  ELSE IF a[1] >= 0 THEN a[1] \div Pow10(-a[2])
  ELSE -(((-a[1]) + Pow10(-a[2]) - 1) \div Pow10(-a[2]))

\* sum of the exponential series from term k on; term = r^k / k!
RECURSIVE ExpSeries(_, _, _)
ExpSeries(r, k, term) ==
  IF k > 6 THEN Zero
  ELSE FAdd(term, ExpSeries(r, k + 1, FDiv(FMul(term, r), Norm(k + 1, 0))))

\* er * 10^k
Scale10(er, k) == Norm(er[1], er[2] + k)

\* exp(a) = 10^k * exp(r/8)^8 with r = a - k ln 10
ExpReduced(a, k) ==
  Scale10(FPow(ExpSeries(FDiv(FSub(a, FMul(Norm(k, 0), Ln10)), <<8000, -3>>), 0, One), 8), k)

\* np.exp; float64 overflows to inf above 709.78 and underflows to 0 below
\* -745.13
FExp(a) ==
  IF a = NaN THEN NaN
  ELSE IF a = PInf \/ FGt(a, <<7097, -1>>) THEN PInf
  ELSE IF a = NInf \/ FLt(a, <<-7451, -1>>) THEN Zero
  ELSE ExpReduced(a, Floor(FDiv(a, Ln10)))

\* sum of the series of 2 atanh(z) from term k on; term = 2 z^(2k+1)
RECURSIVE AtanhSeries(_, _, _)
AtanhSeries(z2, k, term) ==
  IF k > 4 THEN Zero
  ELSE FAdd(FDiv(term, Norm(2 * k + 1, 0)), AtanhSeries(z2, k + 1, FMul(term, z2)))

\* 2 atanh(z)
Atanh2(z) == AtanhSeries(FMul(z, z), 0, FMul(Two, z))

\* ln u for u in [0.5, 5): halve u down to 1.5, then ln u = 2 atanh((u-1)/(u+1))
RECURSIVE LnReduced(_)
LnReduced(u) ==
  IF FGt(u, <<1500, -3>>) THEN FAdd(Ln2, LnReduced(FDiv(u, Two)))
  ELSE Atanh2(FDiv(FSub(u, One), FAdd(u, One)))

\* np.log: nan for a negative argument, -inf for zero
FLn(a) ==
  IF a = NaN \/ a[1] < 0 THEN NaN
  ELSE IF a = PInf THEN PInf
  ELSE IF a[1] = 0 THEN NInf
  ELSE IF a[1] >= 5 * MantMin
  THEN FAdd(FMul(Norm(a[2] + Digits, 0), Ln10), LnReduced(<<a[1], -Digits>>))
  ELSE FAdd(FMul(Norm(a[2] + Digits - 1, 0), Ln10), LnReduced(<<a[1], 1 - Digits>>))

\* np.power(x, p) for x >= 0 and a real exponent p > 0
FPowReal(x, p) ==
  IF x = NaN \/ p = NaN THEN NaN
  ELSE IF x[1] = 0 THEN Zero
  ELSE FExp(FMul(p, FLn(x)))

----------------------------------------------------------------------------
(* Arrays and optional arguments                                           *)

NoArray == [some |-> FALSE, v |-> <<>>]

SomeArray(a) == [some |-> TRUE, v |-> a]

NoFloat == [some |-> FALSE, v |-> Zero]

SomeFloat(a) == [some |-> TRUE, v |-> a]

HasNaN(y) == \E i \in 1..Len(y) : y[i] = NaN

\* np.argmax: the first index of the maximum; the first nan if there is one
ArgMax(y) ==
  IF HasNaN(y) THEN CHOOSE i \in 1..Len(y) : y[i] = NaN /\ \A j \in 1..(i - 1) : y[j] # NaN
  ELSE CHOOSE i \in 1..Len(y) :
         /\ \A j \in 1..Len(y) : FLe(y[j], y[i])
         /\ \A j \in 1..(i - 1) : FLt(y[j], y[i])

\* np.max, np.min: nan if any element is nan
ArrMax(y) == y[ArgMax(y)]

ArrMin(y) ==
  IF HasNaN(y) THEN NaN
  ELSE y[CHOOSE i \in 1..Len(y) : \A j \in 1..Len(y) : FLe(y[i], y[j])]

ArrSub(a, b) == [i \in 1..Len(a) |-> FSub(a[i], b[i])]

ArrAdd(a, b) == [i \in 1..Len(a) |-> FAdd(a[i], b[i])]

ArrScale(a, r) == [i \in 1..Len(a) |-> FMul(a[i], r)]

----------------------------------------------------------------------------
(* clustcos and cst_curve                                                  *)

A0Default == <<7900, -6>>

A1Default == <<9600, -4>>

\* np.power((1-np.cos(a))/2.0, beta)
ClustPower(a, beta) == FPow(FDiv(FSub(One, FCos(a)), Two), beta)

\* a = np.pi*(a0*(1-yt)+a1*yt)
ClustAngle(a0, a1, yt) == FMul(Pi, FAdd(FMul(a0, FSub(One, yt)), FMul(a1, yt)))

\* c = (np.power((1-np.cos(a))/2.0,beta)-aa)/dd with dd = ee - aa
ClustRatio(c, aa, ee) == FDiv(FSub(c, aa), FSub(ee, aa))

\* clustcos(i, nn, a0, a1, beta): beta is a natural number here
clustcos(i, nn, a0, a1, beta) ==
  ClustRatio(ClustPower(ClustAngle(a0, a1, FDiv(Norm(i, 0), FSub(Norm(nn, 0), One))), beta),
             ClustPower(FMul(a0, Pi), beta),
             ClustPower(FMul(a1, Pi), beta))

RECURSIVE Factorial(_)
Factorial(n) == IF n <= 0 THEN 1 ELSE n * Factorial(n - 1)

\* xk_i_n = factorial(n_order-1)/factorial(i)/factorial(n_order-1-i)
Binomial(n, i) == Factorial(n) \div (Factorial(i) * Factorial(n - i))

\* s_psi: the loop over i = from .. n_order-1 of cst_curve
RECURSIVE ShapeSum(_, _, _)
ShapeSum(coef, xv, i) ==
  IF i >= Len(coef) THEN Zero
  ELSE FAdd(FMul(FMul(FMul(coef[i + 1], Norm(Binomial(Len(coef) - 1, i), 0)),
                      FPow(xv, i)),
                 FPow(FSub(One, xv), Len(coef) - 1 - i)),
            ShapeSum(coef, xv, i + 1))

\* C_n1n2 for xn1 = 0.5, xn2 = 1.0
ClassFunction(xv) == FMul(FSqrt(xv), FSub(One, xv))

DefaultSample(nn) == [i \in 1..nn |-> clustcos(i - 1, nn, A0Default, A1Default, 1)]

\* faulty variant: only the first ordinate is forced to zero
ForceFirstOnly(y) == [ip \in 1..Len(y) |-> IF ip = 1 THEN Zero ELSE y[ip]]

\* y[0] = 0.0; y[-1] = 0.0
ForceEnds(y) == [ip \in 1..Len(y) |-> IF ip = 1 \/ ip = Len(y) THEN Zero ELSE y[ip]]

\* faulty variant: only a sample that is too short is rejected
SampleTooShort(nn, x) == x.some /\ Len(x.v) < nn

\* the size check of an explicit sample: x.shape[0] != nn
SizeMismatch(nn, x) == x.some /\ Len(x.v) # nn

\* the loop over ip of cst_curve on the sample xs of nn points
CurveOrdinates(nn, coef, xs) ==
  [ip \in 1..nn |-> FMul(ClassFunction(xs[ip]), ShapeSum(coef, xs[ip], 0))]

\* the curve on the sample xs
CurveOn(nn, coef, xs) ==
  [err |-> "", x |-> xs, y |-> ForceEnds(CurveOrdinates(nn, coef, xs))]

\* cst_curve(nn, coef, x): x is NoArray (None) or SomeArray(sample)
cst_curve(nn, coef, x) ==
  IF SizeMismatch(nn, x)
  THEN [err |-> "size", x |-> <<>>, y |-> <<>>]
  ELSE CurveOn(nn, coef, IF x.some THEN x.v ELSE DefaultSample(nn))

----------------------------------------------------------------------------
(* interplot_from_curve and find_circle_3p                                 *)

StrictlyIncreasing(x) == \A i \in 1..(Len(x) - 1) : FLt(x[i], x[i + 1])

\* the Lagrange weight at x0 of the knot xi among the knots xi, xa, xb, xc
LagrangeWeight(x0, xi, xa, xb, xc) ==
  FMul(FMul(FDiv(FSub(x0, xa), FSub(xi, xa)),
            FDiv(FSub(x0, xb), FSub(xi, xb))),
       FDiv(FSub(x0, xc), FSub(xi, xc)))

\* the cubic through knots k..k+3 evaluated at x0 (Lagrange form)
Lagrange4(x0, x, y, k) ==
  FAdd(FAdd(FAdd(FMul(y[k], LagrangeWeight(x0, x[k], x[k + 1], x[k + 2], x[k + 3])),
                 FMul(y[k + 1], LagrangeWeight(x0, x[k + 1], x[k], x[k + 2], x[k + 3]))),
            FMul(y[k + 2], LagrangeWeight(x0, x[k + 2], x[k], x[k + 1], x[k + 3]))),
       FMul(y[k + 3], LagrangeWeight(x0, x[k + 3], x[k], x[k + 1], x[k + 2])))

\* interplot_from_curve(x0, x, y) = interp1d(x, y, kind='cubic')(x0) for a strictly
\* increasing x.  interp1d raises ValueError for fewer than 4 points and for x0
\* outside [x[0], x[-1]], and returns nan when y holds a nan.  The interpolant
\* is the cubic through the four knots at the start of the curve, which is
\* interp1d's not-a-knot spline when the curve has four points.
interplot_from_curve(x0, x, y) ==
  IF Len(x) < 4 \/ ~StrictlyIncreasing(x) THEN [err |-> "interp", v |-> NaN]
  ELSE IF FLt(x0, x[1]) \/ FGt(x0, x[Len(x)]) THEN [err |-> "range", v |-> NaN]
  ELSE IF \E i \in 1..Len(y) : ~IsFin(y[i]) THEN [err |-> "", v |-> NaN]
  ELSE [err |-> "", v |-> Lagrange4(x0, x, y, 1)]

\* x21 * y32 - x32 * y21
Determinant(p1, p2, p3) ==
  FSub(FMul(FSub(p2[1], p1[1]), FSub(p3[2], p2[2])),
       FMul(FSub(p3[1], p2[1]), FSub(p2[2], p1[2])))

\* the test that raises 'Finding circle: 3 points in one line'
\* faulty variant: a determinant below 1e-20 in magnitude counts as zero
InOneLineTol(p1, p2, p3) == FLt(FAbs(Determinant(p1, p2, p3)), <<1000, -23>>)

\* faulty variant: a determinant below 1e-3 in magnitude counts as zero
InOneLineCoarse(p1, p2, p3) == FLt(FAbs(Determinant(p1, p2, p3)), <<1000, -6>>)

InOneLine(p1, p2, p3) == FEq(Determinant(p1, p2, p3), Zero)

\* xy21 = p2[0]*p2[0] - p1[0]*p1[0] + p2[1]*p2[1] - p1[1]*p1[1]
SquareDifference(q, p) == FSub(FAdd(FSub(FSq(q[1]), FSq(p[1])), FSq(q[2])), FSq(p[2]))

\* y0 = (x32 * xy21 - x21 * xy32) / 2 * (y21 * x32 - y32 * x21)
CentreY(x21, y21, x32, y32, xy21, xy32) ==
  FMul(FDiv(FSub(FMul(x32, xy21), FMul(x21, xy32)), Two),
       FSub(FMul(y21, x32), FMul(y32, x21)))

\* x0 = (xy21 - 2 * y0 * y21) / (2.0 * x21)
CentreX(x21, y21, xy21, y0) ==
  FDiv(FSub(xy21, FMul(FMul(Two, y0), y21)), FMul(Two, x21))

\* R = np.sqrt(np.power(p1[0]-x0,2) + np.power(p1[1]-y0,2))
CircleAround(p1, x0, y0) ==
  [err |-> "", R |-> FSqrt(FAdd(FPow(FSub(p1[1], x0), 2), FPow(FSub(p1[2], y0), 2))),
   XC |-> <<x0, y0>>]

\* the circle once y0 is known
CircleFromY(p1, x21, y21, xy21, y0) == CircleAround(p1, CentreX(x21, y21, xy21, y0), y0)

\* the circle from the differences x21, y21, x32, y32, xy21, xy32
CircleFrom(p1, x21, y21, x32, y32, xy21, xy32) ==
  CircleFromY(p1, x21, y21, xy21, CentreY(x21, y21, x32, y32, xy21, xy32))

\* find_circle_3p(p1, p2, p3); npy: the coordinates are numpy scalars, whose
\* division by zero gives inf or nan; Python floats raise ZeroDivisionError
find_circle_3p(p1, p2, p3, npy) ==
  IF InOneLine(p1, p2, p3) THEN [err |-> "line", R |-> NaN, XC |-> <<NaN, NaN>>]
  ELSE IF ~npy /\ FMul(Two, FSub(p2[1], p1[1])) = Zero
       THEN [err |-> "zerodiv", R |-> NaN, XC |-> <<NaN, NaN>>]
  ELSE CircleFrom(p1, FSub(p2[1], p1[1]), FSub(p2[2], p1[2]),
                  FSub(p3[1], p2[1]), FSub(p3[2], p2[2]),
                  SquareDifference(p2, p1), SquareDifference(p3, p2))

----------------------------------------------------------------------------
(* cst_foil                                                                *)

XRLE == <<5000, -6>>

FoilError(e) == [err |-> e, x |-> <<>>, yu |-> <<>>, yl |-> <<>>, t0 |-> NaN, R0 |-> NaN]

\* the thickness constraint: r = (t - tail*x_[it]) / t0
\* faulty variant: the ratio inverted
ThicknessRatioInverted(t, tail, xit, t0) == FDiv(t0, FSub(t, FMul(tail, xit)))

ThicknessRatio(t, tail, xit, t0) == FDiv(FSub(t, FMul(tail, xit)), t0)

\* faulty variant: each surface is moved by the whole tail, not half of it
AddWholeTail(y, x_, tail, sign) ==
  [i \in 1..Len(y) |->
     IF sign > 0 THEN FAdd(y[i], FMul(tail, x_[i])) ELSE FSub(y[i], FMul(tail, x_[i]))]

\* the tail loop: y[i] += sign * 0.5*tail*x_[i]
AddTail(y, x_, tail, sign) ==
  [i \in 1..Len(y) |->
     IF sign > 0 THEN FAdd(y[i], FMul(FMul(Half, tail), x_[i]))
     ELSE FSub(y[i], FMul(FMul(Half, tail), x_[i]))]

\* the t0 that cst_foil returns: t when given, else thick[it] of the raw curves
ReturnedThickness(t, rawmax) == IF t.some THEN t.v ELSE rawmax

\* yu = yu * r; yl = yl * r
ScaleSurfaces(yu, yl, r) == <<ArrScale(yu, r), ArrScale(yl, r)>>

\* the tail loop on both surfaces ys = <<yu, yl>>
TailedFoil(x_, ys, t0, tail) ==
  [err |-> "", x |-> x_, yu |-> AddTail(ys[1], x_, tail, 1),
   yl |-> AddTail(ys[2], x_, tail, -1), t0 |-> t0]

\* faulty variant: the tail is added before the surfaces are scaled
ConstrainThicknessTailFirst(x_, yu, yl, thick, it, t, tail) ==
  IF t.some
  THEN [err |-> "", x |-> x_,
        yu |-> ArrScale(AddTail(yu, x_, tail, 1), ThicknessRatio(t.v, tail, x_[it], thick[it])),
        yl |-> ArrScale(AddTail(yl, x_, tail, -1), ThicknessRatio(t.v, tail, x_[it], thick[it])),
        t0 |-> t.v]
  ELSE TailedFoil(x_, <<yu, yl>>, thick[it], tail)

\* lines 341-353: t0 = thick[it], the thickness constraint, the tail
ConstrainThickness(x_, yu, yl, thick, it, t, tail) ==
  TailedFoil(x_,
             IF t.some
             THEN ScaleSurfaces(yu, yl, ThicknessRatio(t.v, tail, x_[it], thick[it]))
             ELSE <<yu, yl>>,
             ReturnedThickness(t, thick[it]), tail)

\* lines 340-353: it = np.argmax(thick) and what follows
ThickFoil(x_, yu, yl, thick, t, tail) ==
  ConstrainThickness(x_, yu, yl, thick, ArgMax(thick), t, tail)

\* lines 339-353: thick = yu-yl and what follows
ShapedFoil(up, lo, t, tail) ==
  IF up.err # "" THEN [err |-> up.err, x |-> <<>>, yu |-> <<>>, yl |-> <<>>, t0 |-> NaN]
  ELSE ThickFoil(lo.x, up.y, lo.y, ArrSub(up.y, lo.y), t, tail)

\* lines 336-353 of cst_foil: the two curves, scaled and with the tail added
FoilSurfaces(nn, coef_upp, coef_low, x, t, tail) ==
  ShapedFoil(cst_curve(nn, coef_upp, x), cst_curve(nn, coef_low, x), t, tail)

\* line 359 and the return, given the circle through the leading edge
WithRadius(s, circ) ==
  IF circ.err # "" THEN FoilError(circ.err)
  ELSE [err |-> "", x |-> s.x, yu |-> s.yu, yl |-> s.yl, t0 |-> s.t0, R0 |-> circ.R]

\* lines 359-361, given the two ordinates at x_RLE
FitRadius(s, yuR, ylR) ==
  IF yuR.err # "" THEN FoilError(yuR.err)
  ELSE WithRadius(s, find_circle_3p(<<Zero, Zero>>, <<XRLE, yuR.v>>, <<XRLE, ylR.v>>, TRUE))

\* lines 356-361: the leading edge radius of the surfaces s
LeadingEdge(s) ==
  IF s.err # "" THEN FoilError(s.err)
  ELSE FitRadius(s, interplot_from_curve(XRLE, s.x, s.yu),
                 interplot_from_curve(XRLE, s.x, s.yl))

\* cst_foil(nn, coef_upp, coef_low, x, t, tail)
cst_foil(nn, coef_upp, coef_low, x, t, tail) ==
  LeadingEdge(FoilSurfaces(nn, coef_upp, coef_low, x, t, tail))

----------------------------------------------------------------------------
(* add_bump and foil_bump_modify                                           *)

\* the Gaussian width at x[i]: xc/3.5 or (1-xc)/3.5 on the side where the span
\* leaves [0, 1], else s/6
GaussSigma(xi, xc, s) ==
  IF FLt(FSub(xc, s), Zero) /\ FLt(xi, xc) THEN FDiv(xc, <<3500, -3>>)
  ELSE IF FGt(FAdd(xc, s), One) /\ FGt(xi, xc) THEN FDiv(FSub(One, xc), <<3500, -3>>)
  ELSE FDiv(s, <<6000, -3>>)

\* h * exp(aa) with aa = -(x[i]-xc)^2 / 2 / sigma^2
GaussBump(xi, xc, h, s) ==
  FMul(h, FExp(FDiv(FDiv(FNeg(FSq(FSub(xi, xc))), Two), FSq(GaussSigma(xi, xc, s)))))

\* np.sin(rr) with rr = np.pi*np.power(xx,s0)
BumpBase(xx, s0) == FSin(FMul(Pi, FPowReal(xx, s0)))

\* h * sin(pi * x^s0)^Pow
HicksHenne(xx, s0, h, Pow) == FMul(h, FPow(BumpBase(xx, s0), Pow))

\* for i in range(0, 201): xx = i*0.005
GridSize == 201

GridX(i) == FMul(Norm(i, 0), <<5000, -6>>)

\* np.sin(rr) at the grid points, which no pass of the while loop changes,
\* as a tuple; entry i + 1 is for the code's i
GridBase(s0) == [i \in 1..GridSize |-> BumpBase(GridX(i - 1), s0)] \o <<>>

SetMin(S) == CHOOSE i \in S : \A j \in S : i <= j

\* the grid points left of xc where yy > 0.01*hm
LeftAbove(base, hm, Pow, xc) ==
  {i \in 0..(GridSize - 1) :
     FLt(GridX(i), xc) /\ FGt(FMul(hm, FPow(base[i + 1], Pow)), FMul(<<1000, -5>>, hm))}

\* the grid points right of xc where yy < 0.01*hm
RightBelow(base, hm, Pow, xc) ==
  {i \in 0..(GridSize - 1) :
     FGt(GridX(i), xc) /\ FLt(FMul(hm, FPow(base[i + 1], Pow)), FMul(<<1000, -5>>, hm))}

\* the first grid point of S, or the value x1, x2 keep when there is none
GridFirst(S, none) == IF S = {} THEN none ELSE GridX(SetMin(S))

\* one pass of the while loop: span = x2 - x1 of the bump of power Pow, x1
\* the first grid point left of xc above 1% of the peak (-1 if none), x2 the
\* first one right of xc below 1% (1 if none)
BumpSpan(base, hm, Pow, xc) ==
  FSub(GridFirst(RightBelow(base, hm, Pow, xc), One),
       GridFirst(LeftAbove(base, hm, Pow, xc), <<-1000, -3>>))

\* while Pow<100 and span>s
PowCap == 100

\* the while loop from the state (Pow, span): the value of Pow when it ends
RECURSIVE PowSearch(_, _, _, _, _, _)
PowSearch(Pow, span, s, base, hm, xc) ==
  IF Pow < PowCap /\ FGt(span, s)
  THEN PowSearch(Pow + 1, BumpSpan(base, hm, Pow, xc), s, base, hm, xc)
  ELSE Pow

\* the last loop of the Hicks-Henne branch: y_new[i] += h*sin(pi*x[i]^s0)^Pow
HicksHenneBump(x, y, h, s0, Pow) ==
  [i \in 1..Len(x) |-> FAdd(y[i], HicksHenne(x[i], s0, h, Pow))]

\* the Hicks-Henne branch once s0 is known
HicksHenneFrom(x, y, xc, h, s, s0) ==
  HicksHenneBump(x, y, h, s0, PowSearch(1, One, s, GridBase(s0), FAbs(h), xc))

\* faulty variant: only a centre beyond the ends of [0, 1] is rejected
CentreBeyondEnds(xc) == FLt(xc, Zero) \/ FGt(xc, One)

\* if xc<=0 or xc>=1: print(...); return y_new
CentreOutside(xc) == FLe(xc, Zero) \/ FGe(xc, One)

\* add_bump(x, y, xc, h, s, kind): kind is "G" or "H"
add_bump(x, y, xc, h, s, kind) ==
  IF CentreOutside(xc) THEN y
  ELSE IF kind = "G"
  THEN [i \in 1..Len(x) |-> FAdd(y[i], GaussBump(x[i], xc, h, s))]
  ELSE HicksHenneFrom(x, y, xc, h, s, FDiv(FLn(Half), FLn(xc)))

\* if xc<0.1 or xc>0.9: kind = 'H' else 'G'
BumpKind(xc) == IF FLt(xc, <<1000, -4>>) \/ FGt(xc, <<9000, -4>>) THEN "H" ELSE "G"

\* rl = (t0-tu)/tl, ru = (t0-tl)/tu
RescaleRatio(t0, tbump, tother) == FDiv(FSub(t0, tbump), tother)

\* lines 423-430: tu, tl at it and the rescaling of the other side
Rescaled(yu1, yl1, t0, it, side) ==
  IF side > 0
  THEN [yu |-> yu1, yl |-> ArrScale(yl1, RescaleRatio(t0, FAbs(yu1[it]), FAbs(yl1[it])))]
  ELSE [yu |-> ArrScale(yu1, RescaleRatio(t0, FAbs(yl1[it]), FAbs(yu1[it]))), yl |-> yl1]

\* lines 422-430: it = np.argmax(yu_new-yl_new) and what follows
BumpedFoil(yu1, yl1, t0, side) == Rescaled(yu1, yl1, t0, ArgMax(ArrSub(yu1, yl1)), side)

\* lines 412-430: the bump of height h*t0 on one side and what follows
BumpFrom(x, yu, yl, xc, h, s, side, t0) ==
  BumpedFoil(IF side > 0 THEN add_bump(x, yu, xc, FMul(h, t0), s, BumpKind(xc)) ELSE yu,
             IF side > 0 THEN yl ELSE add_bump(x, yl, xc, FMul(h, t0), s, BumpKind(xc)),
             t0, side)

\* foil_bump_modify(x, yu, yl, xc, h, s, side, n_order) for n_order = 0
foil_bump_modify(x, yu, yl, xc, h, s, side) ==
  BumpFrom(x, yu, yl, xc, h, s, side, ArrMax(ArrSub(yu, yl)))

----------------------------------------------------------------------------
(* curve_curvature, foil_tcc and check_valid                               *)

\* np.linalg.norm of the difference of two points
Norm2(p, q) == FSqrt(FAdd(FSq(FSub(p[1], q[1])), FSq(FSub(p[2], q[2]))))

\* the threshold 1.0E-12 on R = a*b*c
CurvTol == <<1000, -15>>

\* curv_ = 0.0 if R <= 1.0E-12 else 4.0*np.sqrt(t)/R
RadiusCurvature(t, R) ==
  IF FLe(R, CurvTol) THEN Zero ELSE FDiv(FMul(<<4000, -3>>, FSqrt(t)), R)

\* t = p*(p-a)*(p-b)*(p-c), R = a*b*c
HeronCurvature(a, b, c, p) ==
  RadiusCurvature(FMul(FMul(FMul(p, FSub(p, a)), FSub(p, b)), FSub(p, c)),
                  FMul(FMul(a, b), c))

\* p = 0.5*(a+b+c)
SideCurvature(a, b, c) == HeronCurvature(a, b, c, FMul(Half, FAdd(FAdd(a, b), c)))

\* if a1*b2 < a2*b1: curv_ = -curv_
SignedCurvature(X1, X2, X3, cv) ==
  IF FLt(FMul(FSub(X2[1], X1[1]), FSub(X3[2], X1[2])),
         FMul(FSub(X2[2], X1[2]), FSub(X3[1], X1[1])))
  THEN FNeg(cv) ELSE cv

\* the loop body of curve_curvature on the points X1, X2, X3
CurvatureAt(X1, X2, X3) ==
  SignedCurvature(X1, X2, X3, SideCurvature(Norm2(X1, X2), Norm2(X2, X3), Norm2(X3, X1)))

\* curv_ of the loop body of curve_curvature, for the code's index i = k - 1
PointCurvature(x, y, k) ==
  CurvatureAt(<<x[k - 1], y[k - 1]>>, <<x[k], y[k]>>, <<x[k + 1], y[k + 1]>>)

\* faulty variant: five points are required
FewerThanFive(nn) == nn < 5

\* if nn < 3: raise
TooFewForCurvature(nn) == nn < 3

\* curve_curvature(x, y): raises for fewer than 3 points
curve_curvature(x, y) ==
  IF TooFewForCurvature(Len(x)) THEN [err |-> "curvature", curv |-> <<>>]
  ELSE [err |-> "",
        curv |-> [k \in 1..Len(x) |->
                    IF k = 1 THEN PointCurvature(x, y, 2)
                    ELSE IF k = Len(x) THEN PointCurvature(x, y, Len(x) - 1)
                    ELSE PointCurvature(x, y, k)]]

\* thickness = yu-yl, camber = 0.5*(yu+yl), with the two curvatures cu, cl
TccFrom(yu, yl, cu, cl) ==
  [err |-> cu.err, thickness |-> ArrSub(yu, yl), curv_u |-> cu.curv, curv_l |-> cl.curv,
   camber |-> [i \in 1..Len(yu) |-> FMul(Half, FAdd(yu[i], yl[i]))]]

\* foil_tcc(x, yu, yl): thickness, curv_u, curv_l, camber
foil_tcc(x, yu, yl) == TccFrom(yu, yl, curve_curvature(x, yu), curve_curvature(x, yl))

\* n_extreme: the number of i in from..nn-3 with a1*a2 >= 0
RECURSIVE CountExtreme(_, _)
CountExtreme(thickness, i) ==
  IF i > Len(thickness) - 3 THEN 0
  ELSE (IF FGe(FMul(FSub(thickness[i + 3], thickness[i + 2]),
                    FSub(thickness[i + 1], thickness[i + 2])), Zero)
        THEN 1 ELSE 0)
       + CountExtreme(thickness, i + 1)

\* the running maximum of |v[i]| over the i from k on for which keep[i] holds
RECURSIVE MaxAbsWhere(_, _, _, _)
MaxAbsWhere(v, k, keep, acc) ==
  IF k > Len(v) THEN acc
  ELSE MaxAbsWhere(v, k + 1, keep, IF keep[k] THEN FMax2(acc, FAbs(v[k])) ELSE acc)

Flag(b) == IF b THEN 1 ELSE 0

\* rule 4 skips the points with x[i] < 0.1
Rule4Range(x) == [i \in 1..Len(x) |-> ~FLt(x[i], <<1000, -4>>)]

\* rule 5 skips the points with x[i] < 0.2 or x[i] > 0.7
Rule5Range(x) == [i \in 1..Len(x) |-> ~(FLt(x[i], <<2000, -4>>) \/ FGt(x[i], <<7000, -4>>))]

\* au = yu[ii]/x[ii]/a0, al = -yl[ii]/x[ii]/a0
LeadingSlope(yii, xii, a0) == FDiv(FDiv(yii, xii), a0)

\* n_rule = 10
NRule == 10

\* faulty variant: the list starts with every flag set
InitialFlagsSet(n_rule) == [k \in 1..n_rule |-> 1]

\* rule_invalid = [0 for _ in range(n_rule)]
InitialFlags(n_rule) == [k \in 1..n_rule |-> 0]

\* rule 1: np.min(thickness) < neg_tcri
NegativeThicknessRule(thickness, neg_tcri) == FLt(ArrMin(thickness), neg_tcri)

\* the conditions of rules 1 to 7, given i_max = np.argmax(thickness) and
\* ii = int(0.1*nn)+1
RuleFlags(x, yu, yl, RLE, neg_tcri, tcc, i_max, ii) ==
  << Flag(NegativeThicknessRule(tcc.thickness, neg_tcri)),
     Flag(FLt(x[i_max], <<1500, -4>>) \/ FGt(x[i_max], <<7500, -4>>)),
     Flag(CountExtreme(tcc.thickness, 0) > 2),
     Flag(\/ FGt(MaxAbsWhere(tcc.curv_u, 1, Rule4Range(x), Zero), <<5000, -3>>)
          \/ FGt(MaxAbsWhere(tcc.curv_l, 1, Rule4Range(x), Zero), <<5000, -3>>)),
     Flag(FGt(MaxAbsWhere(tcc.camber, 1, Rule5Range(x), Zero), <<2500, -5>>)),
     Flag(\/ FGt(RLE, Zero) /\ FLt(RLE, <<5000, -6>>)
          \/ FGt(RLE, Zero) /\ FLt(FDiv(RLE, tcc.thickness[i_max]), <<1000, -5>>)),
     Flag(\/ FLt(LeadingSlope(yu[ii], x[ii], FDiv(tcc.thickness[i_max], x[i_max])), One)
          \/ FLt(LeadingSlope(FNeg(yl[ii]), x[ii], FDiv(tcc.thickness[i_max], x[i_max])),
                 One)) >>

\* rule_invalid[k] = 1 for the rules whose condition holds
SetFlags(rule_invalid, set) ==
  [k \in 1..Len(rule_invalid) |-> IF k <= Len(set) /\ set[k] = 1 THEN 1 ELSE rule_invalid[k]]

\* the list rule_invalid after the rules
RulesAt(x, yu, yl, RLE, neg_tcri, tcc, i_max, ii) ==
  SetFlags(InitialFlags(NRule), RuleFlags(x, yu, yl, RLE, neg_tcri, tcc, i_max, ii))

\* the rules applied to the distributions tcc of foil_tcc
RulesFrom(x, yu, yl, RLE, neg_tcri, tcc) ==
  IF tcc.err # "" THEN [err |-> tcc.err, flags |-> <<>>]
  ELSE [err |-> "",
        flags |-> RulesAt(x, yu, yl, RLE, neg_tcri, tcc, ArgMax(tcc.thickness),
                          (Len(x) \div 10) + 2)]

\* check_valid(x, yu, yl, RLE, neg_tcri): the list rule_invalid
check_valid(x, yu, yl, RLE, neg_tcri) ==
  RulesFrom(x, yu, yl, RLE, neg_tcri, foil_tcc(x, yu, yl))

----------------------------------------------------------------------------
(* foil_increment                                                          *)

\* an optional coefficient array: None, or an ndarray
NoCoef == [some |-> FALSE, v |-> <<>>]

SomeCoef(c) == [some |-> TRUE, v |-> c]

\* np.zeros(nn)
Zeros(nn) == [i \in 1..nn |-> Zero]

\* lines 585-588: yu_i, under the test coef_upp is not None
UpperIncrement(x, coef_upp) ==
  IF coef_upp.some THEN cst_curve(Len(x), coef_upp.v, SomeArray(x)).y ELSE Zeros(Len(x))

\* lines 590-593: yl_i, under the same test coef_upp is not None
LowerIncrement(x, coef_upp, coef_low) ==
  IF coef_upp.some THEN cst_curve(Len(x), coef_low.v, SomeArray(x)).y ELSE Zeros(Len(x))

\* line 591 with coef_low None: cst_curve reads coef.shape of None at line 823,
\* an AttributeError
IncrementOfNone(coef_upp, coef_low) == coef_upp.some /\ ~coef_low.some

\* lines 601-603 (sign -1 on yu, +1 on yl) and 620-622 (+1 on yu, -1 on yl):
\* the tail is moved only if tail > 0.0
MoveTail(y, x_, tail, sign) == IF FGt(tail, Zero) THEN AddTail(y, x_, tail, sign) ELSE y

\* lines 619-624: the tail added back to the surfaces ys = <<yu_, yl_>>
IncrementResult(x, ys, tail) ==
  [err |-> "", yu |-> MoveTail(ys[1], x, tail, 1), yl |-> MoveTail(ys[2], x, tail, -1)]

\* lines 611-624: t0 = thick[it], the thickness constraint, the tail
ConstrainIncrement(x, yu_, yl_, thick, it, t, tail) ==
  IncrementResult(x,
                  IF t.some
                  THEN ScaleSurfaces(yu_, yl_, ThicknessRatio(t.v, tail, x[it], thick[it]))
                  ELSE <<yu_, yl_>>,
                  tail)

\* lines 609-624: thick = yu_-yl_, it = np.argmax(thick) and what follows
ThickIncrement(x, yu_, yl_, thick, t, tail) ==
  ConstrainIncrement(x, yu_, yl_, thick, ArgMax(thick), t, tail)

\* lines 599-624: the tail removed, the increments yu_i, yl_i added
IncrementFrom(x, yu_, yl_, t, tail) == ThickIncrement(x, yu_, yl_, ArrSub(yu_, yl_), t, tail)

\* lines 600-624, given tail = yu_[-1] - yl_[-1] and the increments
IncrementWith(x, yu, yl, yu_i, yl_i, t, tail) ==
  IncrementFrom(x, ArrAdd(MoveTail(yu, x, tail, -1), yu_i),
                ArrAdd(MoveTail(yl, x, tail, 1), yl_i), t, tail)

\* foil_increment(x, yu, yl, coef_upp, coef_low, t)
foil_increment(x, yu, yl, coef_upp, coef_low, t) ==
  IF IncrementOfNone(coef_upp, coef_low)
  THEN [err |-> "attribute", yu |-> <<>>, yl |-> <<>>]
  ELSE IncrementWith(x, yu, yl, UpperIncrement(x, coef_upp),
                     LowerIncrement(x, coef_upp, coef_low), t,
                     FSub(yu[Len(yu)], yl[Len(yl)]))

----------------------------------------------------------------------------
(* transform and rotate                                                    *)

\* dx + xu
ArrShift(a, d) == [i \in 1..Len(a) |-> FAdd(d, a[i])]

\* angle/180.0*np.pi
Radians(angle) == FMul(FDiv(angle, <<1800, -1>>), Pi)

\* x0 + (xu_new-x0)*scale/rr
ScaleAbout(a, c, scale, rr) ==
  [i \in 1..Len(a) |-> FAdd(c, FDiv(FMul(FSub(a[i], c), scale), rr))]

\* rotate, axis 'Z': x_ = origin[0] + (x-origin[0])*cc - (y-origin[1])*ss
RotatedX(x, y, x0, y0, cc, ss) ==
  [i \in 1..Len(x) |->
     FSub(FAdd(x0, FMul(FSub(x[i], x0), cc)), FMul(FSub(y[i], y0), ss))]

\* rotate, axis 'Z': y_ = origin[1] + (x-origin[0])*ss + (y-origin[1])*cc
RotatedY(x, y, x0, y0, cc, ss) ==
  [i \in 1..Len(x) |->
     FAdd(FAdd(y0, FMul(FSub(x[i], x0), ss)), FMul(FSub(y[i], y0), cc))]

\* lines 962-966 of transform, given cc and ss of rotate
RotateWith(xu, xl, yu, yl, x0, y0, cc, ss) ==
  [xu |-> RotatedX(xu, yu, x0, y0, cc, ss), xl |-> RotatedX(xl, yl, x0, y0, cc, ss),
   yu |-> RotatedY(xu, yu, x0, y0, cc, ss), yl |-> RotatedY(xl, yl, x0, y0, cc, ss)]

\* lines 962-966 of transform: the two calls of rotate about [x0, y0, 0.0]
RotatePair(xu, xl, yu, yl, rot, x0, y0) ==
  RotateWith(xu, xl, yu, yl, x0, y0, FCos(Radians(rot)), FSin(Radians(rot)))

\* lines 956-966 of transform, given the centre x0, y0 and the ratio rr
TransformScaled(xu, xl, yu, yl, scale, rot, x0, y0, rr) ==
  RotatePair(ScaleAbout(xu, x0, scale, rr), ScaleAbout(xl, x0, scale, rr),
             ScaleAbout(yu, y0, scale, rr), ScaleAbout(yl, y0, scale, rr), rot, x0, y0)

\* lines 944-966 of transform, on the translated curves
TransformAbout(xu, xl, yu, yl, scale, rot, proj) ==
  TransformScaled(xu, xl, yu, yl, scale, rot, xu[1], FMul(Half, FAdd(yu[1], yl[1])),
                  IF proj THEN FCos(Radians(rot)) ELSE One)

\* transform(xu, xl, yu, yl, scale, rot, dx=dx, dy=dy, proj=proj) for a rot
\* that is a number and x0 = y0 = None
transform(xu, xl, yu, yl, scale, rot, dx, dy, proj) ==
  TransformAbout(ArrShift(xu, dx), ArrShift(xl, dx), ArrShift(yu, dy), ArrShift(yl, dy),
                 scale, rot, proj)

\* np.flip
Reversed(a) == [i \in 1..Len(a) |-> a[Len(a) + 1 - i]]

\* xu_[1:]
Rest(a) == [i \in 1..(Len(a) - 1) |-> a[i + 1]]

----------------------------------------------------------------------------
(* class Section                                                           *)
(*                                                                         *)
(* ndarrays are objects with identity: the heap h is the sequence of the   *)
(* arrays allocated so far, an array-valued attribute holds the address of *)
(* its array (its index in h), and None is address 0.  A method runs on a  *)
(* record m = [h, o, err]: the heap, the object self, and the exception    *)
(* raised so far ("" for none).  A statement after an exception is not     *)
(* executed: the attributes assigned before it keep their new values.      *)

None == 0

\* the optional coefficient array at address k
CoefAt(h, k) == IF k = None THEN NoCoef ELSE SomeCoef(h[k])

\* Section.__init__(thick, chord, twist, tail): eight arrays np.zeros(1)
Section_init(h, thick, chord, twist, tail) ==
  [h |-> h \o [k \in 1..8 |-> <<Zero>>],
   o |-> [cls |-> "Section", xLE |-> Zero, yLE |-> Zero, zLE |-> Zero, chord |-> chord,
          twist |-> twist, thick |-> thick, tail |-> tail, RLE |-> Zero,
          cst_u |-> Len(h) + 1, cst_l |-> Len(h) + 2, xx |-> Len(h) + 3,
          yu |-> Len(h) + 4, yl |-> Len(h) + 5, x |-> Len(h) + 6, y |-> Len(h) + 7,
          z |-> Len(h) + 8, refine_fixed_t |-> TRUE, refine_u |-> None,
          refine_l |-> None],
   err |-> ""]

\* faulty variant: the attribute refers to the caller's array
KeepAlias(m, field, k) == [m EXCEPT !.o[field] = k]

\* self.<field> = aa_.copy() for the caller's array at address k
KeepCopy(m, field, k) ==
  [m EXCEPT !.h = Append(m.h, m.h[k]), !.o[field] = Len(m.h) + 1]

\* self.<field> = <a new array arr>
Assign(m, field, arr) == [m EXCEPT !.h = Append(m.h, arr), !.o[field] = Len(m.h) + 1]

Raise(m, e) == [m EXCEPT !.err = e]

\* lines 125-127: both coefficient arrays are stored, or neither
Section_StoreCoefs(m, cst_u, cst_l) ==
  IF cst_u # None /\ cst_l # None
  THEN KeepCopy(KeepCopy(m, "cst_u", cst_u), "cst_l", cst_l)
  ELSE m

\* the assignment of line 129 from the tuple f that cst_foil returned
Section_AssignFoil(m, f) ==
  IF f.err # "" THEN Raise(m, f.err)
  ELSE [Assign(Assign(Assign(m, "xx", f.x), "yu", f.yu), "yl", f.yl)
          EXCEPT !.o.thick = SomeFloat(f.t0), !.o.RLE = f.R0]

\* lines 129-130
Section_BuildFoil(m, nn) ==
  IF m.err # "" THEN m
  ELSE Section_AssignFoil(m, cst_foil(nn, m.h[m.o.cst_u], m.h[m.o.cst_l], NoArray,
                                      m.o.thick, m.o.tail))

\* the assignment of line 139 from the pair r that foil_increment returned
Section_AssignRefined(m, r) ==
  IF r.err # "" THEN Raise(m, r.err) ELSE Assign(Assign(m, "yu", r.yu), "yl", r.yl)

\* lines 133-139
Section_Refine(m) ==
  IF m.err # "" \/ (m.o.refine_u = None /\ m.o.refine_l = None) THEN m
  ELSE Section_AssignRefined(m, foil_increment(m.h[m.o.xx], m.h[m.o.yu], m.h[m.o.yl],
                                               CoefAt(m.h, m.o.refine_u),
                                               CoefAt(m.h, m.o.refine_l),
                                               IF m.o.refine_fixed_t THEN m.o.thick
                                               ELSE NoFloat))

\* lines 142-143 and 279-280: self.xx is an ndarray, which has no attribute
\* 'reverse': the statement raises AttributeError
FlipX(m, flip_x) == IF m.err # "" \/ ~flip_x THEN m ELSE Raise(m, "attribute")

\* lines 148-150 from the curves tr that transform returned
Section_Assign3D(m, nn, tr) ==
  Assign(Assign(Assign(m, "x", Reversed(tr.xl) \o Rest(tr.xu)),
                "y", Reversed(tr.yl) \o Rest(tr.yu)),
         "z", [i \in 1..(2 * nn - 1) |-> FMul(One, m.o.zLE)])

\* lines 145-150
Section_To3D(m, nn, proj) ==
  IF m.err # "" THEN m
  ELSE Section_Assign3D(m, nn, transform(m.h[m.o.xx], m.h[m.o.xx], m.h[m.o.yu],
                                         m.h[m.o.yl], m.o.chord, m.o.twist, m.o.xLE,
                                         m.o.yLE, proj))

\* Section.section(cst_u, cst_l, nn, flip_x, proj)
Section_section(m, cst_u, cst_l, nn, flip_x, proj) ==
  Section_To3D(FlipX(Section_Refine(Section_BuildFoil(Section_StoreCoefs(m, cst_u, cst_l),
                                                      nn)),
                     flip_x),
               nn, proj)

\* if '<key>' in kwargs.keys(): self.<key> = kwargs['<key>']
SetScalar(m, kw, key) == IF key \in DOMAIN kw THEN [m EXCEPT !.o[key] = kw[key]] ELSE m

\* lines 102-110 and 247-250: an ndarray is stored as a copy, anything else
\* is ignored
SetArray(m, kw, key) ==
  IF key \in DOMAIN kw /\ kw[key] # None THEN KeepCopy(m, key, kw[key]) ELSE m

\* lines 78-86 and 232-239
SetLeadingEdge(m, kw) == SetScalar(SetScalar(SetScalar(m, kw, "xLE"), kw, "yLE"), kw, "zLE")

\* lines 64-76
Section_Defaults(m) ==
  [m EXCEPT !.o.xLE = Zero, !.o.yLE = Zero, !.o.zLE = Zero, !.o.chord = One,
            !.o.thick = NoFloat, !.o.twist = Zero, !.o.tail = Zero,
            !.o.refine_fixed_t = TRUE, !.o.refine_u = None, !.o.refine_l = None]

\* Section.set_params(init, **kw)
Section_set_params(m, init, kw) ==
  IF init THEN Section_Defaults(m)
  ELSE SetArray(SetArray(SetScalar(SetScalar(SetScalar(SetScalar(SetScalar(
         SetLeadingEdge(m, kw), kw, "chord"), kw, "thick"), kw, "twist"), kw, "tail"),
         kw, "refine_fixed_t"), kw, "refine_u"), kw, "refine_l")

\* faulty variant: the attribute refers to the array of the other object
ShareField(m, field, k) == [m EXCEPT !.o[field] = k]

\* self.<field> = other.<field>.copy() for the array of other at address k
CopyField(m, field, k) ==
  [m EXCEPT !.h = Append(m.h, m.h[k]), !.o[field] = Len(m.h) + 1]

\* self.<field> = copy.deepcopy(other.<field>): None, or a new array
DeepCopyField(m, field, k) ==
  IF k = None THEN [m EXCEPT !.o[field] = None] ELSE CopyField(m, field, k)

\* lines 159-166
Section_CopyScalars(m, other) ==
  [m EXCEPT !.o.xLE = other.xLE, !.o.yLE = other.yLE, !.o.zLE = other.zLE,
            !.o.chord = other.chord, !.o.twist = other.twist, !.o.thick = other.thick,
            !.o.tail = other.tail, !.o.RLE = other.RLE]

\* lines 168-176
Section_CopyArrays(m, other) ==
  CopyField(CopyField(CopyField(CopyField(CopyField(CopyField(CopyField(CopyField(
    m, "cst_u", other.cst_u), "cst_l", other.cst_l), "xx", other.xx), "yu", other.yu),
    "yl", other.yl), "x", other.x), "y", other.y), "z", other.z)

\* lines 178-180
Section_CopyRefine(m, other) ==
  DeepCopyField(DeepCopyField([m EXCEPT !.o.refine_fixed_t = other.refine_fixed_t],
                              "refine_u", other.refine_u),
                "refine_l", other.refine_l)

\* Section.copyfrom(other)
Section_copyfrom(m, other) ==
  IF other.cls # "Section" THEN Raise(m, "type")
  ELSE Section_CopyRefine(Section_CopyArrays(Section_CopyScalars(m, other), other), other)

----------------------------------------------------------------------------
(* class OpenSection                                                       *)

\* OpenSection.__init__(thick, chord, twist): six arrays np.zeros(1)
OpenSection_init(h, thick, chord, twist) ==
  [h |-> h \o [k \in 1..6 |-> <<Zero>>],
   o |-> [cls |-> "OpenSection", xLE |-> Zero, yLE |-> Zero, zLE |-> Zero,
          chord |-> chord, twist |-> twist, thick |-> thick, cst |-> Len(h) + 1,
          xx |-> Len(h) + 2, yy |-> Len(h) + 3, x |-> Len(h) + 4, y |-> Len(h) + 5,
          z |-> Len(h) + 6, refine |-> None],
   err |-> ""]

\* lines 221-230
OpenSection_Defaults(m) ==
  [m EXCEPT !.o.xLE = Zero, !.o.yLE = Zero, !.o.zLE = Zero, !.o.chord = One,
            !.o.twist = Zero, !.o.thick = NoFloat, !.o.refine = None]

\* OpenSection.set_params(init, **kw): there is no test for 'thick'
OpenSection_set_params(m, init, kw) ==
  IF init THEN OpenSection_Defaults(m)
  ELSE SetArray(SetScalar(SetScalar(SetLeadingEdge(m, kw), kw, "chord"), kw, "twist"),
                kw, "refine")

\* lines 264-265
OpenSection_StoreCst(m, cst) == IF cst # None THEN KeepCopy(m, "cst", cst) ELSE m

\* the assignment of line 267 from the pair c that cst_curve returned
OpenSection_AssignCurve(m, c) ==
  IF c.err # "" THEN Raise(m, c.err) ELSE Assign(Assign(m, "xx", c.x), "yy", c.y)

\* line 267
OpenSection_BuildCurve(m, nn) ==
  OpenSection_AssignCurve(m, cst_curve(nn, m.h[m.o.cst], NoArray))

\* line 271 from the pair c that cst_curve returned: self.yy += y_i changes
\* the array self.yy in place
OpenSection_AddRefine(m, c) ==
  IF c.err # "" THEN Raise(m, c.err)
  ELSE [m EXCEPT !.h[m.o.yy] = ArrAdd(m.h[m.o.yy], c.y)]

\* lines 269-271
OpenSection_Refine(m, nn) ==
  IF m.err # "" \/ m.o.refine = None THEN m
  ELSE OpenSection_AddRefine(m, cst_curve(nn, m.h[m.o.refine], SomeArray(m.h[m.o.xx])))

\* line 276 with t0 = np.max(self.yy)
OpenSection_Scale(m, yy, t0) ==
  Assign(m, "yy", [i \in 1..Len(yy) |-> FMul(FDiv(yy[i], t0), m.o.thick.v)])

\* lines 274-276
OpenSection_Thickness(m) ==
  IF m.err # "" \/ ~m.o.thick.some THEN m
  ELSE OpenSection_Scale(m, m.h[m.o.yy], ArrMax(m.h[m.o.yy]))

\* lines 282-285 from the curves tr that transform returned
OpenSection_Assign3D(m, nn, tr) ==
  Assign(Assign(Assign(m, "x", tr.xu), "y", tr.yu),
         "z", [i \in 1..nn |-> FMul(One, m.o.zLE)])

\* lines 282-285
OpenSection_To3D(m, nn, proj) ==
  IF m.err # "" THEN m
  ELSE OpenSection_Assign3D(m, nn, transform(m.h[m.o.xx], m.h[m.o.xx], m.h[m.o.yy],
                                             m.h[m.o.yy], m.o.chord, m.o.twist,
                                             m.o.xLE, m.o.yLE, proj))

\* OpenSection.section(cst, nn, flip_x, proj)
OpenSection_section(m, cst, nn, flip_x, proj) ==
  OpenSection_To3D(FlipX(OpenSection_Thickness(OpenSection_Refine(
                     OpenSection_BuildCurve(OpenSection_StoreCst(m, cst), nn), nn)),
                         flip_x),
                   nn, proj)

\* lines 294-298: thick is not copied
OpenSection_CopyScalars(m, other) ==
  [m EXCEPT !.o.xLE = other.xLE, !.o.yLE = other.yLE, !.o.zLE = other.zLE,
            !.o.chord = other.chord, !.o.twist = other.twist]

\* lines 300-306
OpenSection_CopyArrays(m, other) ==
  CopyField(CopyField(CopyField(CopyField(CopyField(CopyField(
    m, "cst", other.cst), "xx", other.xx), "yy", other.yy), "x", other.x),
    "y", other.y), "z", other.z)

\* OpenSection.copyfrom(other)
OpenSection_copyfrom(m, other) ==
  IF other.cls # "OpenSection" THEN Raise(m, "type")
  ELSE DeepCopyField(OpenSection_CopyArrays(OpenSection_CopyScalars(m, other), other),
                     "refine", other.refine)

----------------------------------------------------------------------------
(* fit_curve                                                               *)

RECURSIVE SumOf(_, _)
SumOf(f, n) == IF n = 0 THEN Zero ELSE FAdd(SumOf(f, n - 1), f[n])

Dot(u, v) == SumOf([i \in 1..Len(u) |-> FMul(u[i], v[i])], Len(u))

Column(A, i) == [ip \in 1..Len(A) |-> A[ip][i]]

\* the row with the largest |M[p][0]|
Pivot(M) ==
  CHOOSE p \in 1..Len(M) : \A q \in 1..Len(M) : FGe(FAbs(M[p][1]), FAbs(M[q][1]))

\* the q-th of the rows other than p
Other(q, p) == IF q < p THEN q ELSE q + 1

\* the matrix left when row p has removed column 1 from the other rows
ReducedMatrix(M, p) ==
  [q \in 1..(Len(M) - 1) |->
     [j \in 1..(Len(M) - 1) |->
        FSub(M[Other(q, p)][j + 1],
             FMul(FDiv(M[Other(q, p)][1], M[p][1]), M[p][j + 1]))] \o <<>>] \o <<>>

ReducedRhs(M, r, p) ==
  [q \in 1..(Len(M) - 1) |->
     FSub(r[Other(q, p)], FMul(FDiv(M[Other(q, p)][1], M[p][1]), r[p]))] \o <<>>

\* the first unknown from row p and the other unknowns xs
BackSubstitute(row, rp, xs) ==
  <<FDiv(FSub(rp, Dot(Tail(row), xs)), row[1])>> \o xs

\* the solution of the square system M x = r, by elimination with pivoting
RECURSIVE Solve(_, _)
SolveAt(M, r, p) ==
  BackSubstitute(M[p], r[p], Solve(ReducedMatrix(M, p), ReducedRhs(M, r, p)))

Solve(M, r) == IF Len(M) = 0 THEN <<>> ELSE SolveAt(M, r, Pivot(M))

\* the rows of A that are not all zero, in order
RECURSIVE Support(_, _)
Support(A, ip) ==
  IF ip > Len(A) THEN <<>>
  ELSE (IF \E i \in 1..Len(A[ip]) : A[ip][i] # Zero THEN <<ip>> ELSE <<>>)
       \o Support(A, ip + 1)

RowsAt(A, S) == [q \in 1..Len(S) |-> A[S[q]]] \o <<>>

\* A^T A and A^T b
NormalMatrix(A, k) ==
  [i \in 1..k |-> [j \in 1..k |-> Dot(Column(A, i), Column(A, j))] \o <<>>] \o <<>>

NormalRhs(A, b, k) == [i \in 1..k |-> Dot(Column(A, i), b)] \o <<>>

\* A A^T
RowGram(A) ==
  [p \in 1..Len(A) |-> [q \in 1..Len(A) |-> Dot(A[p], A[q])] \o <<>>] \o <<>>

\* A^T w
MinNorm(A, w, k) == [i \in 1..k |-> Dot(Column(A, i), w)]

\* the least-squares solution of smallest norm for rows A that are
\* independent (fewer rows than unknowns) or columns that are independent
LeastSquares(A, b, k) ==
  IF Len(A) >= k THEN Solve(NormalMatrix(A, k), NormalRhs(A, b, k))
  ELSE MinNorm(A, Solve(RowGram(A), b), k)

LstsqOn(A, b, S) == LeastSquares(RowsAt(A, S), RowsAt(b, S), Len(A[1]))

\* lstsq(A, b, rcond=None)[0]: a zero row of A has no part in the solution
lstsq(A, b) == LstsqOn(A, b, Support(A, 1))

\* x_ = (x-x[0])/L with L = x[-1] - x[0]
FitScaled(x) ==
  [ip \in 1..Len(x) |-> FDiv(FSub(x[ip], x[1]), FSub(x[Len(x)], x[1]))] \o <<>>

\* b[ip] -= x_[ip]*y[-1]
FitTarget(x_, y) ==
  [ip \in 1..Len(y) |-> FSub(y[ip], FMul(x_[ip], y[Len(y)]))] \o <<>>

\* faulty variant: the class function is left out
FitEntryNoClass(xv, i, n_order) ==
  FMul(FMul(Norm(Binomial(n_order - 1, i), 0), FPow(xv, i)),
       FPow(FSub(One, xv), n_order - 1 - i))

\* A[ip][i] at x_[ip] = xv
FitEntry(xv, i, n_order) ==
  FMul(FMul(FMul(Norm(Binomial(n_order - 1, i), 0), FPow(xv, i)),
            FPow(FSub(One, xv), n_order - 1 - i)),
       ClassFunction(xv))

FitMatrix(x_, n_order) ==
  [ip \in 1..Len(x_) |->
     [i \in 1..n_order |-> FitEntry(x_[ip], i - 1, n_order)] \o <<>>] \o <<>>

FitOn(x_, y, n_order) == lstsq(FitMatrix(x_, n_order), FitTarget(x_, y))

\* fit_curve(x, y, n_order)
fit_curve(x, y, n_order) == FitOn(FitScaled(x), y, n_order)

----------------------------------------------------------------------------
(* Arguments                                                               *)

MaxN == 4

MaxOrder == 2

\* the strictly increasing sequence of the elements of a set of numbers
RECURSIVE SortedSeq(_)
SortedSeq(S) ==
  IF S = {} THEN <<>>
  ELSE LET m == CHOOSE a \in S : \A b \in S : FLe(a, b)
       IN  <<m>> \o SortedSeq(S \ {m})

Grid == {Zero, Norm(25, -2), Half, Norm(75, -2), One}

\* explicit x-samples: increasing, of 2 to MaxN+1 points, not all from 0 to 1
Samples == {SortedSeq(S) : S \in {T \in SUBSET Grid : Cardinality(T) \in 2..(MaxN + 1)}}

XOptions == {NoArray} \cup {SomeArray(s) : s \in Samples}

CoefValues == {Norm(-1, -1), Norm(1, -1), Norm(2, -1)}

SeqsOf(S, n) == UNION {[1..k -> S] : k \in 1..n}

CoefVectors == SeqsOf(CoefValues, MaxOrder)

\* coefficient vectors of airfoil surfaces; <<0.1>> and <<0.1, 0.1>> give the same curve
FoilCoefVectors ==
  {<<Norm(1, -1)>>, <<Norm(-1, -1)>>, <<Norm(1, -1), Norm(2, -1)>>, <<Norm(1, -1), Norm(1, -1)>>}

\* the x argument of cst_foil: absent, or a sample that ends at 1, one that
\* stops short of 1, one of three points, one that starts after 0.005
FoilXOptions ==
  {NoArray,
   SomeArray(<<Zero, Norm(25, -2), Half, One>>),
   SomeArray(<<Zero, Norm(25, -2), Half, Norm(75, -2)>>),
   SomeArray(<<Zero, Half, One>>),
   SomeArray(<<Norm(25, -2), Half, Norm(75, -2), One>>)}

TOptions == {NoFloat, SomeFloat(Norm(12, -2)), SomeFloat(Norm(-12, -2))}

TailOptions == {Zero, Norm(2, -2)}

Pending == [err |-> "pending"]

----------------------------------------------------------------------------
(* Specifications: one call of one function                                *)

InitCurve ==
  /\ pc = "call"
  /\ args \in [fn : {"cst_curve"}, nn : 2..MaxN, coef : CoefVectors, x : XOptions]
  /\ ret = Pending
  /\ NoObjects

CallCstCurve ==
  /\ pc = "call"
  /\ args.fn = "cst_curve"
  /\ ret' = cst_curve(args.nn, args.coef, args.x)
  /\ pc' = "done"
  /\ UNCHANGED args
  /\ UNCHANGED objs

InitFoil ==
  /\ pc = "call"
  /\ args \in [fn : {"cst_foil"}, nn : 2..MaxN, coef_upp : FoilCoefVectors,
                coef_low : FoilCoefVectors, x : FoilXOptions, t : TOptions,
                tail : TailOptions]
  /\ ret = Pending
  /\ NoObjects

CallCstFoil ==
  /\ pc = "call"
  /\ args.fn = "cst_foil"
  /\ ret' = cst_foil(args.nn, args.coef_upp, args.coef_low, args.x, args.t, args.tail)
  /\ pc' = "done"
  /\ UNCHANGED args
  /\ UNCHANGED objs

\* airfoils on five points: a symmetric one, and one whose upper surface is
\* thick ahead of mid-chord and whose lower surface is thick behind it
BumpFoils ==
  {[x  |-> <<Zero, Norm(25, -2), Half, Norm(75, -2), One>>,
    yu |-> <<Zero, Norm(5, -2), Norm(6, -2), Norm(3, -2), Zero>>,
    yl |-> <<Zero, Norm(-5, -2), Norm(-6, -2), Norm(-3, -2), Zero>>],
   [x  |-> <<Zero, Norm(25, -2), Half, Norm(75, -2), One>>,
    yu |-> <<Zero, Norm(5, -2), Norm(9, -2), Norm(1, -2), Zero>>,
    yl |-> <<Zero, Norm(-1, -2), Norm(-1, -2), Norm(-4, -2), Zero>>]}

\* bump centres: outside (0, 1), near the leading edge (Hicks-Henne), inside
BumpCentres == {Zero, Norm(5, -2), Norm(25, -2), Half, Norm(75, -2), One}

BumpHeights == {Norm(-5, -1), Norm(2, -1)}

BumpSpans == {Norm(2, -1), Norm(9, -1)}

InitBump ==
  /\ pc = "call"
  /\ \E f \in BumpFoils, xc \in BumpCentres, h \in BumpHeights, s \in BumpSpans,
        side \in {1, -1} :
        args = [fn |-> "foil_bump_modify", x |-> f.x, yu |-> f.yu, yl |-> f.yl,
                xc |-> xc, h |-> h, s |-> s, side |-> side]
  /\ ret = Pending
  /\ NoObjects

CallFoilBumpModify ==
  /\ pc = "call"
  /\ args.fn = "foil_bump_modify"
  /\ ret' = foil_bump_modify(args.x, args.yu, args.yl, args.xc, args.h, args.s, args.side)
  /\ pc' = "done"
  /\ UNCHANGED args
  /\ UNCHANGED objs

SpecBump == InitBump /\ [][CallFoilBumpModify]_vars

\* curves on five points for add_bump
BumpCurves ==
  {<<Zero, Norm(5, -2), Norm(6, -2), Norm(3, -2), Zero>>,
   <<Zero, Norm(-1, -2), Norm(-1, -2), Norm(-4, -2), Zero>>}

\* bump centres of add_bump: left of 0, at 0, inside (0, 1), at 1, right of 1
AddBumpCentres == {Norm(-5, -1), Zero, Norm(5, -2), Half, One, Norm(15, -1)}

\* spans for which the three widths of the Gaussian bump occur
AddBumpSpans == {Half, Norm(9, -1)}

InitAddBump ==
  /\ pc = "call"
  /\ \E y \in BumpCurves, xc \in AddBumpCentres, h \in BumpHeights, s \in AddBumpSpans,
        kind \in {"G", "H"} :
        args = [fn |-> "add_bump", x |-> <<Zero, Norm(25, -2), Half, Norm(75, -2), One>>,
                y |-> y, xc |-> xc, h |-> h, s |-> s, kind |-> kind]
  /\ ret = Pending
  /\ NoObjects

\* y_new = add_bump(x, y, xc, h, s, kind); no statement of add_bump raises
CallAddBump ==
  /\ pc = "call"
  /\ args.fn = "add_bump"
  /\ ret' = [err |-> "", y |-> add_bump(args.x, args.y, args.xc, args.h, args.s, args.kind)]
  /\ pc' = "done"
  /\ UNCHANGED args
  /\ UNCHANGED objs

SpecAddBump == InitAddBump /\ [][CallAddBump]_vars

\* coordinates of the points given to find_circle_3p; 1e-21 is a tiny offset
CircleCoords == {Zero, One, Two, Norm(1, -21)}

CirclePoints == CircleCoords \X CircleCoords

InitCircle ==
  /\ pc = "call"
  /\ args \in [fn : {"find_circle_3p"}, p1 : CirclePoints, p2 : CirclePoints,
                p3 : CirclePoints, npy : BOOLEAN]
  /\ ret = Pending
  /\ NoObjects

CallFindCircle ==
  /\ pc = "call"
  /\ args.fn = "find_circle_3p"
  /\ ret' = find_circle_3p(args.p1, args.p2, args.p3, args.npy)
  /\ pc' = "done"
  /\ UNCHANGED args
  /\ UNCHANGED objs

SpecCircle == InitCircle /\ [][CallFindCircle]_vars

SpecCurve == InitCurve /\ [][CallCstCurve]_vars

SpecCurveFoil == (InitCurve \/ InitFoil) /\ [][CallCstCurve \/ CallCstFoil]_vars

\* the caller validates the airfoil it got: check_valid(x, yu, yl, RLE=R0)
CallCheckValid ==
  /\ pc = "done"
  /\ args.fn = "cst_foil"
  /\ ret.err = ""
  /\ ret' = [err |-> "", x |-> ret.x, yu |-> ret.yu, yl |-> ret.yl, t0 |-> ret.t0,
             R0 |-> ret.R0, valid |-> check_valid(ret.x, ret.yu, ret.yl, ret.R0, Zero)]
  /\ pc' = "checked"
  /\ UNCHANGED args
  /\ UNCHANGED objs

SpecFoil == InitFoil /\ [][CallCstFoil \/ CallCheckValid]_vars

\* airfoils given to check_valid: of two and of three points; the two of
\* BumpFoils; one whose surfaces cross at mid-chord; one whose thickness is
\* -0.005 at one point; and two with ordinates that are not numbers
ValidFoils ==
  BumpFoils \cup
  {[x  |-> <<Zero, One>>, yu |-> <<Zero, Zero>>, yl |-> <<Zero, Zero>>],
   [x  |-> <<Zero, Half, One>>,
    yu |-> <<Zero, Norm(6, -2), Zero>>,
    yl |-> <<Zero, Norm(-6, -2), Zero>>],
   [x  |-> <<Zero, Norm(25, -2), Half, Norm(75, -2), One>>,
    yu |-> <<Zero, Norm(5, -2), Norm(-2, -2), Norm(3, -2), Zero>>,
    yl |-> <<Zero, Norm(-5, -2), Norm(3, -2), Norm(-3, -2), Zero>>],
   [x  |-> <<Zero, Norm(25, -2), Half, Norm(75, -2), One>>,
    yu |-> <<Zero, Norm(5, -2), Norm(6, -2), Norm(-5, -3), Zero>>,
    yl |-> <<Zero, Norm(-5, -2), Norm(-6, -2), Zero, Zero>>],
   [x  |-> <<Zero, Norm(25, -2), Half, Norm(75, -2), One>>,
    yu |-> <<Zero, Norm(5, -2), Norm(5, -2), Norm(5, -2), Zero>>,
    yl |-> <<Zero, Norm(-5, -2), Norm(-5, -2), Norm(-5, -2), Zero>>],
   [x  |-> <<Zero, Norm(25, -2), Half, One>>,
    yu |-> <<NaN, NInf, NInf, NaN>>,
    yl |-> <<NaN, PInf, PInf, NaN>>],
   [x  |-> <<Zero, Norm(25, -2), Half, Norm(75, -2), One>>,
    yu |-> <<Zero, Norm(5, -2), NaN, Norm(-2, -2), Zero>>,
    yl |-> <<Zero, Norm(-5, -2), Norm(-6, -2), Norm(3, -2), Zero>>]}

InitValid ==
  /\ pc = "call"
  /\ \E f \in ValidFoils, RLE \in {Zero, Norm(3, -3), Norm(2, -2)},
        neg_tcri \in {Zero, Norm(-1, -2), Norm(-1, -1)} :
        args = [fn |-> "check_valid", x |-> f.x, yu |-> f.yu, yl |-> f.yl,
                RLE |-> RLE, neg_tcri |-> neg_tcri]
  /\ ret = Pending
  /\ NoObjects

\* rule_invalid = check_valid(x, yu, yl, RLE, neg_tcri)
CallCheckValidOn ==
  /\ pc = "call"
  /\ args.fn = "check_valid"
  /\ ret' = check_valid(args.x, args.yu, args.yl, args.RLE, args.neg_tcri)
  /\ pc' = "done"
  /\ UNCHANGED args
  /\ UNCHANGED objs

SpecValid == InitValid /\ [][CallCheckValidOn]_vars

\* baseline airfoils of foil_increment: the two of BumpFoils and one with an
\* open trailing edge
IncrementFoils ==
  BumpFoils \cup
  {[x  |-> <<Zero, Norm(25, -2), Half, Norm(75, -2), One>>,
    yu |-> <<Zero, Norm(5, -2), Norm(6, -2), Norm(3, -2), Norm(1, -2)>>,
    yl |-> <<Zero, Norm(-5, -2), Norm(-6, -2), Norm(-3, -2), Norm(-1, -2)>>]}

\* incremental coefficients: None or an array
IncrementCoefs ==
  {NoCoef, SomeCoef(<<Norm(1, -2)>>), SomeCoef(<<Norm(-1, -2)>>),
   SomeCoef(<<Norm(2, -2), Norm(1, -2)>>)}

InitIncrement ==
  /\ pc = "call"
  /\ \E f \in IncrementFoils, cu \in IncrementCoefs, cl \in IncrementCoefs,
        t \in {NoFloat, SomeFloat(Norm(12, -2))} :
        args = [fn |-> "foil_increment", x |-> f.x, yu |-> f.yu, yl |-> f.yl,
                coef_upp |-> cu, coef_low |-> cl, t |-> t]
  /\ ret = Pending
  /\ NoObjects

\* yu_, yl_ = foil_increment(x, yu, yl, coef_upp, coef_low, t)
CallFoilIncrement ==
  /\ pc = "call"
  /\ args.fn = "foil_increment"
  /\ ret' = foil_increment(args.x, args.yu, args.yl, args.coef_upp, args.coef_low, args.t)
  /\ pc' = "done"
  /\ UNCHANGED args
  /\ UNCHANGED objs

SpecIncrement == InitIncrement /\ [][CallFoilIncrement]_vars

----------------------------------------------------------------------------
(* Specification: a caller with two objects of a class                     *)

\* the arrays that the caller holds: cst_u, cst_l and refine
OwnArrays == <<<<Norm(1, -1)>>, <<Norm(-1, -1)>>, <<Norm(1, -2)>>>>

OwnNames == [cst_u |-> 1, cst_l |-> 2, refine |-> 3]

\* the bound on the method calls of a behaviour
MaxCalls == 2

\* the bound on the in-place changes of a behaviour
MaxWrites == 1

\* the value that the caller writes into an array: arr[0] = 0.2
Written == <<2000, -4>>

SectionThicks == {NoFloat, SomeFloat(Norm(12, -2))}

\* the arguments of a call of section: with 3 points the cubic interpolation
\* of cst_foil fails
SectionCalls ==
  {[cst |-> TRUE, nn |-> 4, flip_x |-> FALSE], [cst |-> FALSE, nn |-> 4, flip_x |-> FALSE],
   [cst |-> TRUE, nn |-> 3, flip_x |-> FALSE], [cst |-> TRUE, nn |-> 4, flip_x |-> TRUE]}

\* the constructor of the class
New(cls, h, thick, tail) ==
  IF cls = "Section" THEN Section_init(h, thick, One, Zero, tail)
  ELSE OpenSection_init(h, thick, One, Zero)

\* b = cls(thick=thick, tail=tail); a = cls(): the state after the second
\* constructor, the first having returned mb
InitObjects(mb, ma) ==
  /\ heap = ma.h
  /\ sec = [a |-> ma.o, b |-> mb.o]

InitSection ==
  /\ pc = "ready"
  /\ args = [fn |-> "new"]
  /\ ret = [err |-> ""]
  /\ own = OwnNames
  /\ hist = [calls |-> 0, writes |-> 0]
  /\ \E cls \in {"Section", "OpenSection"}, thick \in SectionThicks, tail \in TailOptions :
        \E mb \in {New(cls, OwnArrays, thick, tail)} :
           InitObjects(mb, New(cls, mb.h, NoFloat, Zero))

\* the method running on the object named o
Self(o) == [h |-> heap, o |-> sec[o], err |-> ""]

\* the state after a method of the object named o ended as m
Commit(o, m, call) ==
  /\ heap' = m.h
  /\ sec' = [sec EXCEPT ![o] = m.o]
  /\ ret' = [err |-> m.err]
  /\ args' = call
  /\ hist' = [hist EXCEPT !.calls = @ + 1]
  /\ UNCHANGED <<pc, own>>

\* o.section(cst_u, cst_l, nn=nn, flip_x=flip_x) or o.section(cst_u, ...)
section(m, cst_u, cst_l, nn, flip_x) ==
  IF m.o.cls = "Section" THEN Section_section(m, cst_u, cst_l, nn, flip_x, TRUE)
  ELSE OpenSection_section(m, cst_u, nn, flip_x, TRUE)

CallSection ==
  /\ hist.calls < MaxCalls
  /\ \E o \in {"b"}, c \in SectionCalls :
        Commit(o, section(Self(o), IF c.cst THEN own.cst_u ELSE None,
                          IF c.cst THEN own.cst_l ELSE None, c.nn, c.flip_x),
               [fn |-> "section", obj |-> o, cst |-> c.cst, nn |-> c.nn,
                flip_x |-> c.flip_x])

set_params(m, init, kw) ==
  IF m.o.cls = "Section" THEN Section_set_params(m, init, kw)
  ELSE OpenSection_set_params(m, init, kw)

\* the keyword arguments of a call of set_params; a key that the class does
\* not know is ignored
Keywords ==
  {[thick |-> SomeFloat(Norm(12, -2))],
   [refine_u |-> own.refine, refine_l |-> own.refine, refine |-> own.refine],
   [refine_u |-> own.refine]}

CallSetParams ==
  /\ hist.calls < MaxCalls
  /\ \E o \in {"b"}, init \in BOOLEAN, kw \in Keywords :
        /\ init => kw = [thick |-> SomeFloat(Norm(12, -2))]
        /\ Commit(o, set_params(Self(o), init, kw),
                  [fn |-> "set_params", obj |-> o, init |-> init, kw |-> kw])

copyfrom(m, other) ==
  IF m.o.cls = "Section" THEN Section_copyfrom(m, other)
  ELSE OpenSection_copyfrom(m, other)

\* an object of another type than the two classes, as in a.copyfrom(np.zeros(1))
Foreign == [cls |-> "ndarray"]

CallCopyFrom ==
  /\ hist.calls < MaxCalls
  /\ \E o \in {"a", "b"}, other \in {"a", "b", "foreign"} :
        /\ o # other
        /\ Commit(o, copyfrom(Self(o), IF other = "foreign" THEN Foreign ELSE sec[other]),
                  [fn |-> "copyfrom", obj |-> o, other |-> other])

\* the names of the attributes that hold an array or None
ArrayFields(cls) ==
  IF cls = "Section"
  THEN {"cst_u", "cst_l", "xx", "yu", "yl", "x", "y", "z", "refine_u", "refine_l"}
  ELSE {"cst", "xx", "yy", "x", "y", "z", "refine"}

\* the addresses of the arrays of the object o
Arrays(o) == {o[f] : f \in ArrayFields(o.cls)} \ {None}

\* the addresses of the arrays that the caller holds
OwnArraysOf(names) == {names[f] : f \in DOMAIN names} \ {None}

\* the arrays that the caller can reach
Reachable == OwnArraysOf(own) \cup UNION {Arrays(sec[o]) : o \in DOMAIN sec}

\* arr[0] = 0.2 on an array that the caller can reach, after a method call
CallerWrite ==
  /\ hist.calls > 0
  /\ hist.writes < MaxWrites
  /\ \E k \in Reachable :
        /\ heap' = [heap EXCEPT ![k][1] = Written]
        /\ args' = [fn |-> "write", addr |-> k]
  /\ ret' = [err |-> ""]
  /\ hist' = [hist EXCEPT !.writes = @ + 1]
  /\ UNCHANGED <<pc, sec, own>>

SpecSection ==
  InitSection /\ [][CallSection \/ CallSetParams \/ CallCopyFrom \/ CallerWrite]_vars

----------------------------------------------------------------------------
(* Specification: one call of cst_curve or cst_foil on arrays of the       *)
(* caller, then in-place changes by the caller                             *)

\* return x, y at line 838: with x=None the name x is the array made at line
\* 818; otherwise it is still the array that the caller passed
ReturnCurve(h, c, x) ==
  IF c.err # "" THEN [h |-> h, err |-> c.err, x |-> None, yu |-> None, yl |-> None]
  ELSE IF x = None
  THEN [h |-> h \o <<c.x, c.y>>, err |-> "", x |-> Len(h) + 1, yu |-> Len(h) + 2,
        yl |-> None]
  ELSE [h |-> Append(h, c.y), err |-> "", x |-> x, yu |-> Len(h) + 1, yl |-> None]

\* x2, y = cst_curve(nn, coef, x=x) on the arrays at the addresses coef and x
cst_curve_at(h, nn, coef, x) == ReturnCurve(h, cst_curve(nn, h[coef], CoefAt(h, x)), x)

\* return x_, yu, yl, t0, R0 at line 361: x_ is the x that cst_curve returned
ReturnFoil(h, f, x) ==
  IF f.err # "" THEN [h |-> h, err |-> f.err, x |-> None, yu |-> None, yl |-> None]
  ELSE IF x = None
  THEN [h |-> h \o <<f.x, f.yu, f.yl>>, err |-> "", x |-> Len(h) + 1, yu |-> Len(h) + 2,
        yl |-> Len(h) + 3]
  ELSE [h |-> h \o <<f.yu, f.yl>>, err |-> "", x |-> x, yu |-> Len(h) + 1,
        yl |-> Len(h) + 2]

\* x2, yu, yl, t0, R0 = cst_foil(nn, coef_upp, coef_low, x=x, t=t, tail=tail)
cst_foil_at(h, nn, coef_upp, coef_low, x, t, tail) ==
  ReturnFoil(h, cst_foil(nn, h[coef_upp], h[coef_low], CoefAt(h, x), t, tail), x)

\* the x argument: absent, two samples of four points, one of three points
ArraySamples ==
  {<<>>, <<Zero, Norm(25, -2), Half, One>>, <<Zero, Norm(5, -3), Half, One>>,
   <<Zero, Half, One>>}

\* the caller holds coef_upp, coef_low and, unless it is absent, x
InitArrays ==
  /\ pc = "call"
  /\ \E fn \in {"cst_curve", "cst_foil"}, c \in {Norm(1, -1), Norm(2, -1), Norm(3, -1)},
        x \in ArraySamples, t \in SectionThicks :
        /\ fn = "cst_curve" => ~t.some
        /\ args = [fn |-> fn, nn |-> 4, t |-> t]
        /\ heap = IF x = <<>> THEN <<<<c>>, <<FNeg(c)>>>> ELSE <<<<c>>, <<FNeg(c)>>, x>>
        /\ own = [coef_upp |-> 1, coef_low |-> 2, x |-> IF x = <<>> THEN None ELSE 3,
                  x2 |-> None, yu |-> None, yl |-> None]
  /\ ret = Pending
  /\ sec = <<>>
  /\ hist = [calls |-> 0, writes |-> 0]

\* the state after the call returned r
Received(r) ==
  /\ heap' = r.h
  /\ own' = [own EXCEPT !.x2 = r.x, !.yu = r.yu, !.yl = r.yl]
  /\ ret' = [err |-> r.err]

CallOnArrays ==
  /\ pc = "call"
  /\ args.fn \in {"cst_curve", "cst_foil"}
  /\ hist.calls = 0
  /\ sec = <<>>
  /\ Received(IF args.fn = "cst_curve"
              THEN cst_curve_at(heap, args.nn, own.coef_upp, own.x)
              ELSE cst_foil_at(heap, args.nn, own.coef_upp, own.coef_low, own.x, args.t,
                               Zero))
  /\ pc' = "done"
  /\ hist' = [hist EXCEPT !.calls = 1]
  /\ UNCHANGED <<args, sec>>

SpecArrays == InitArrays /\ [][CallOnArrays \/ CallerWrite]_vars

----------------------------------------------------------------------------
(* Specification: the point distribution clustcos(i, nn, a0, a1, beta) for *)
(* i = 0..nn-1                                                             *)

\* a0 and a1: the defaults 0.0079 and 0.96, values in between, and values
\* near 0, where cos(a*pi) rounds to 1
ClustParams ==
  {<<1000, -6>>, <<2000, -6>>, A0Default, <<2500, -4>>, <<5000, -4>>, A1Default}

InitClust ==
  /\ pc = "call"
  /\ \E nn \in 2..(MaxN + 1), a0 \in ClustParams, a1 \in ClustParams, beta \in 1..2 :
        /\ FLt(a0, a1)
        /\ args = [fn |-> "clustcos", nn |-> nn, a0 |-> a0, a1 |-> a1, beta |-> beta]
  /\ ret = Pending
  /\ NoObjects

\* c = [clustcos(i, nn, a0, a1, beta) for i in range(nn)]
CallClustcos ==
  /\ pc = "call"
  /\ args.fn = "clustcos"
  /\ ret' = [err |-> "",
             c |-> [i \in 1..args.nn |->
                      clustcos(i - 1, args.nn, args.a0, args.a1, args.beta)]]
  /\ pc' = "done"
  /\ UNCHANGED args
  /\ UNCHANGED objs

SpecClust == InitClust /\ [][CallClustcos]_vars

----------------------------------------------------------------------------
(* Specification: one call of fit_curve on a curve that cst_curve built    *)

\* the state before coef2 = fit_curve(x, y, n_order=len(coef)), where
\* x, y = cst_curve(nn, coef) returned c
InitFitOn(nn, coef, c) ==
  args = [fn |-> "fit_curve", nn |-> nn, coef |-> coef, x |-> c.x \o <<>>, y |-> c.y \o <<>>]

InitFit ==
  /\ pc = "call"
  /\ \E nn \in 2..(MaxN + 2), coef \in CoefVectors :
        InitFitOn(nn, coef, cst_curve(nn, coef, NoArray))
  /\ ret = Pending
  /\ NoObjects

CallFitCurve ==
  /\ pc = "call"
  /\ args.fn = "fit_curve"
  /\ ret' = [err |-> "", coef |-> fit_curve(args.x, args.y, Len(args.coef))]
  /\ pc' = "done"
  /\ UNCHANGED args
  /\ UNCHANGED objs

SpecFit == InitFit /\ [][CallFitCurve]_vars

(* curve_curvature on sampled circles and on triples of lattice points     *)

\* twelve points of the unit circle in tenths, counter-clockwise from (1, 0)
UnitCircle ==
  << <<10, 0>>, <<8, 6>>, <<6, 8>>, <<0, 10>>, <<-6, 8>>, <<-8, 6>>,
     <<-10, 0>>, <<-8, -6>>, <<-6, -8>>, <<0, -10>>, <<6, -8>>, <<8, -6>> >>

\* the radii of the sampled circles
CurvRadii == {Norm(1, -5), Norm(1, -4), One, Two}

\* the number of circle points skipped between two samples, plus one
CircleStrides == 1..3

\* index of the i-th sample, from start s with stride d in the given orientation
CircleIndex(s, d, ccw, i) == ((s - 1 + (IF ccw THEN d ELSE 12 - d) * (i - 1)) % 12) + 1

\* coordinate c (1 or 2) of the i-th sample on the circle of radius R
CircleCoord(R, s, d, ccw, i, c) == FMul(Norm(UnitCircle[CircleIndex(s, d, ccw, i)][c], -1), R)

CircleSample(R, s, d, ccw, nn, c) == [i \in 1..nn |-> CircleCoord(R, s, d, ccw, i, c)] \o <<>>

\* coordinates of the lattice points
LatticeCoords == {Zero, One, Norm(3, 0)}

LatticeScales == {One, Norm(1, -5)}

InitOnCircle ==
  \E R \in CurvRadii, s \in 1..12, d \in CircleStrides, ccw \in BOOLEAN, nn \in 2..(MaxN + 1) :
    args = [fn |-> "curve_curvature", on |-> "circle", R |-> R, s |-> s, d |-> d, ccw |-> ccw,
            x |-> CircleSample(R, s, d, ccw, nn, 1), y |-> CircleSample(R, s, d, ccw, nn, 2)]

InitOnLattice ==
  \E x \in [1..3 -> LatticeCoords], y \in [1..3 -> LatticeCoords], k \in LatticeScales :
    args = [fn |-> "curve_curvature", on |-> "lattice", R |-> Zero, s |-> 1, d |-> 1, ccw |-> TRUE,
            x |-> [i \in 1..3 |-> FMul(x[i], k)] \o <<>>,
            y |-> [i \in 1..3 |-> FMul(y[i], k)] \o <<>>]

InitCurvature ==
  /\ pc = "call"
  /\ InitOnCircle \/ InitOnLattice
  /\ ret = Pending
  /\ NoObjects

CallCurveCurvature ==
  /\ pc = "call"
  /\ args.fn = "curve_curvature"
  /\ ret' = curve_curvature(args.x, args.y)
  /\ pc' = "done"
  /\ UNCHANGED args
  /\ UNCHANGED objs

SpecCurvature == InitCurvature /\ [][CallCurveCurvature]_vars

(* Specification: one call of a function on arrays that the caller holds;  *)
(* a call runs in a frame m = [h, at]: the heap and the arrays its local   *)
(* names are bound to, in the order of their binding                       *)

Frame(h) == [h |-> h, at |-> <<>>]

\* faulty variant: the new name is bound to the array itself
LocalAlias(m, k) == [h |-> m.h, at |-> Append(m.at, k)]

\* name = arr.copy(): a new array with the elements of the array at k
LocalCopy(m, k) == [h |-> Append(m.h, m.h[k]), at |-> Append(m.at, Len(m.h) + 1)]

\* name = <expression>: a new array
Fresh(m, arr) == [h |-> Append(m.h, arr), at |-> Append(m.at, Len(m.h) + 1)]

\* name[i] += ..., name[i] -= ... for every i: the array of the j-th name changes in place
StoreInto(m, j, arr) == [h |-> [m.h EXCEPT ![m.at[j]] = arr], at |-> m.at]

\* the end of a call: the heap, the error, the arrays returned, other values returned
Outcome(m, err, out, val) == [h |-> m.h, err |-> err, out |-> out, val |-> val]

\* lines 1114-1157: y_new[i] += ... on the array of y_new
AddBumpInto(m, x, xc, h, s, kind) ==
  StoreInto(m, 1, add_bump(m.h[x], m.h[m.at[1]], xc, h, s, kind))

\* y_new = add_bump(x, y, xc, h, s, kind) on the arrays at x and y
add_bump_at(hp, x, y, xc, h, s, kind) ==
  AddBumpInto(LocalCopy(Frame(hp), y), x, xc, h, s, kind)

\* lines 417-420: the frame with yu_new or yl_new bound to what add_bump returned
BumpedSide(m, r, side) ==
  [h |-> r.h, at |-> IF side > 0 THEN <<r.at[1], m.at[2]>> ELSE <<m.at[1], r.at[1]>>]

\* lines 412-420
BumpSideAt(m, x, xc, ht0, s, side) ==
  BumpedSide(m, add_bump_at(m.h, x, IF side > 0 THEN m.at[1] ELSE m.at[2], xc, ht0, s,
                            BumpKind(xc)), side)

\* lines 422-440: rl * np.array(yl_new) or ru * np.array(yu_new) is a new array
RescaleAt(m, t0, side) ==
  IF side > 0
  THEN Outcome(Fresh(m, BumpedFoil(m.h[m.at[1]], m.h[m.at[2]], t0, side).yl), "",
               <<m.at[1], Len(m.h) + 1>>, <<>>)
  ELSE Outcome(Fresh(m, BumpedFoil(m.h[m.at[1]], m.h[m.at[2]], t0, side).yu), "",
               <<Len(m.h) + 1, m.at[2]>>, <<>>)

\* lines 405-410: yu_new, yl_new, yu_, yl_ are copies
BumpCopies(hp, yu, yl) == LocalCopy(LocalCopy(LocalCopy(LocalCopy(Frame(hp), yu), yl), yu), yl)

\* yu_new, yl_new = foil_bump_modify(x, yu, yl, xc, h, s, side) on arrays
foil_bump_modify_at(hp, x, yu, yl, xc, h, s, side) ==
  RescaleAt(BumpSideAt(BumpCopies(hp, yu, yl), x, xc,
                       FMul(h, ArrMax(ArrSub(hp[yu], hp[yl]))), s, side),
            ArrMax(ArrSub(hp[yu], hp[yl])), side)

\* lines 595-624: x_, yu_, yl_ are copies, every later value is a new array
IncrementAt(hp, x, yu, yl, r) ==
  IF r.err # "" THEN Outcome(Frame(hp), r.err, <<>>, <<>>)
  ELSE Outcome(Fresh(Fresh(LocalCopy(LocalCopy(LocalCopy(Frame(hp), x), yu), yl), r.yu), r.yl),
               "", <<Len(hp) + 4, Len(hp) + 5>>, <<>>)

\* yu_, yl_ = foil_increment(x, yu, yl, coef_upp, coef_low, t) on arrays
foil_increment_at(hp, x, yu, yl, coef_upp, coef_low, t) ==
  IncrementAt(hp, x, yu, yl,
              foil_increment(hp[x], hp[yu], hp[yl], CoefAt(hp, coef_upp), CoefAt(hp, coef_low), t))

\* lines 1186-1187: b[ip] -= x_[ip]*y[-1] on the array of b
FitStoreAt(m) == StoreInto(m, 2, FitTarget(m.h[m.at[1]], m.h[m.at[2]]))

\* lines 1189-1198: the solution is a new array
FitSolveAt(m, n_order) ==
  Outcome(Fresh(m, lstsq(FitMatrix(m.h[m.at[1]], n_order), m.h[m.at[2]])), "",
          <<Len(m.h) + 1>>, <<>>)

\* coef = fit_curve(x, y, n_order) on arrays: x_ is new, b = y.copy()
fit_curve_at(hp, x, y, n_order) ==
  FitSolveAt(FitStoreAt(LocalCopy(Fresh(Frame(hp), FitScaled(hp[x])), y)), n_order)

\* cst_foil on arrays, as an outcome
FoilOutcome(r) == [h |-> r.h, err |-> r.err, out |-> <<r.x, r.yu, r.yl>>, val |-> <<>>]

\* line 495 and foil_tcc: thickness and camber are new arrays, nothing is stored
CheckValidAt(m, r) == Outcome(m, r.err, <<>>, r.flags)

\* rule_invalid = check_valid(x, yu, yl, RLE, neg_tcri) on arrays
check_valid_at(hp, x, yu, yl, RLE, neg_tcri) ==
  CheckValidAt(Fresh(Frame(hp), ArrSub(hp[yu], hp[yl])),
               check_valid(hp[x], hp[yu], hp[yl], RLE, neg_tcri))

\* return name, for the first name of the frame
Returning(m) == Outcome(m, "", <<m.at[1]>>, <<>>)

\* the calls: the arguments that are not arrays
InputCalls ==
  [fn : {"add_bump"}, xc : {Zero, Norm(5, -2), Half}, h : BumpHeights, s : {Half},
   kind : {"G", "H"}]
  \cup [fn : {"foil_bump_modify"}, xc : {Zero, Norm(5, -2), Half}, h : {Norm(2, -1)},
        s : {Half}, side : {1, -1}]
  \cup [fn : {"foil_increment"}, low : BOOLEAN, t : SectionThicks]
  \cup [fn : {"fit_curve"}, n_order : 1..MaxOrder]
  \cup [fn : {"cst_foil"}, nn : {4, 5}, t : SectionThicks, tail : TailOptions]
  \cup [fn : {"check_valid"}, RLE : {Zero, Norm(3, -3)}, neg_tcri : {Zero}]

\* the caller holds x, yu, yl and two coefficient arrays
InitInputs ==
  /\ pc = "call"
  /\ \E p \in InputCalls, f \in BumpFoils, c \in {Norm(1, -1), Norm(2, -1)} :
        /\ args = [fn |-> p.fn, p |-> p, x |-> f.x, yu |-> f.yu, yl |-> f.yl,
                   coef_upp |-> <<c>>, coef_low |-> <<FNeg(c)>>]
        /\ heap = <<f.x, f.yu, f.yl, <<c>>, <<FNeg(c)>>>>
  /\ own = [x |-> 1, yu |-> 2, yl |-> 3, coef_upp |-> 4, coef_low |-> 5]
  /\ ret = Pending
  /\ sec = <<>>
  /\ hist = [calls |-> 0, writes |-> 0]

\* the call p on the arrays o of the caller
InputCall(hp, o, p) ==
  CASE p.fn = "add_bump" ->
         Returning(add_bump_at(hp, o.x, o.yu, p.xc, p.h, p.s, p.kind))
    [] p.fn = "foil_bump_modify" ->
         foil_bump_modify_at(hp, o.x, o.yu, o.yl, p.xc, p.h, p.s, p.side)
    [] p.fn = "foil_increment" ->
         foil_increment_at(hp, o.x, o.yu, o.yl, o.coef_upp,
                           IF p.low THEN o.coef_low ELSE None, p.t)
    [] p.fn = "fit_curve" -> fit_curve_at(hp, o.x, o.yu, p.n_order)
    [] p.fn = "cst_foil" ->
         FoilOutcome(cst_foil_at(hp, p.nn, o.coef_upp, o.coef_low, o.x, p.t, p.tail))
    [] p.fn = "check_valid" -> check_valid_at(hp, o.x, o.yu, o.yl, p.RLE, p.neg_tcri)

\* the state after the call ended with the outcome r
Landed(r) ==
  /\ heap' = r.h
  /\ ret' = [err |-> r.err, out |-> r.out, val |-> r.val]

CallOnInputs ==
  /\ pc = "call"
  /\ args.fn \in {p.fn : p \in InputCalls}
  /\ hist.calls = 0
  /\ Landed(InputCall(heap, own, args.p))
  /\ pc' = "done"
  /\ hist' = [hist EXCEPT !.calls = 1]
  /\ UNCHANGED <<args, sec, own>>

SpecInputs == InitInputs /\ [][CallOnInputs]_vars

----------------------------------------------------------------------------
(* Properties                                                              *)

Done(fn) == pc = "done" /\ args.fn = fn

Returned(fn) == Done(fn) /\ ret.err = ""

\* "equal to floating precision": within one unit of the last-but-one digit
RelTol == Norm(1, 2 - Digits)

Close(a, b) ==
  FLe(FAbs(FSub(a, b)), FMul(RelTol, FMax2(FAbs(a), FAbs(b))))

\* the two raw CST curves of a cst_foil call, before scaling and tail
RawUpper(a) == cst_curve(a.nn, a.coef_upp, a.x).y

RawLower(a) == cst_curve(a.nn, a.coef_low, a.x).y

RawThickness(a) == ArrSub(RawUpper(a), RawLower(a))

MaxThickness(r) == ArrMax(ArrSub(r.yu, r.yl))

SizeOk(a) == ~a.x.some \/ Len(a.x.v) = a.nn

\* C1: cst_curve returns y with y[0] == 0 and y[n-1] == 0 exactly, for every
\* n >= 2 and coefficient vector, with the default or an explicit x-sample of
\* length n.
C1_EndsAreZero ==
  (Done("cst_curve") /\ SizeOk(args)) =>
     /\ ret.err = ""
     /\ Len(ret.y) = args.nn
     /\ ret.y[1] = Zero
     /\ ret.y[args.nn] = Zero

\* an explicit sample that starts after 0 and ends before 1, where the CST
\* formula itself gives non-zero end values
C1_Witness ==
  /\ Returned("cst_curve")
  /\ args.x.some
  /\ FGt(args.x.v[1], Zero)
  /\ FLt(args.x.v[args.nn], One)
  /\ ret.y[1] = Zero
  /\ ret.y[args.nn] = Zero

\* C2: an explicit x-sample whose length differs from nn makes cst_curve, and
\* cst_foil through it, fail with the size-mismatch error; no curve is returned.
C2_SizeMismatchFails ==
  (pc = "done" /\ ~SizeOk(args)) =>
     /\ ret.err = "size"
     /\ ret.x = <<>>
     /\ (args.fn = "cst_curve" => ret.y = <<>>)
     /\ (args.fn = "cst_foil" => ret.yu = <<>> /\ ret.yl = <<>>)

C2_Witness ==
  /\ Done("cst_foil")
  /\ args.x.some
  /\ Len(args.x.v) > args.nn
  /\ ret.err = "size"

\* C3 as claimed: every cst_foil call with tail = T > 0 returns surfaces with
\* yu[n-1] - yl[n-1] == T.
C3_Claimed ==
  (Returned("cst_foil") /\ FGt(args.tail, Zero)) =>
     FEq(FSub(ret.yu[args.nn], ret.yl[args.nn]), args.tail)

\* the sample of the call ends at x = 1 (the default sample always does)
EndsAtOne(a) == ~a.x.some \/ a.x.v[Len(a.x.v)] = One

\* C3 amended: for a cst_foil call with tail = T > 0 whose x-sample ends at
\* x = 1 (the default sample does) and, when a target thickness is given, whose
\* raw maximum thickness is not zero, yu[n-1] - yl[n-1] == T.
C3_TailGap ==
  (/\ Returned("cst_foil")
   /\ FGt(args.tail, Zero)
   /\ EndsAtOne(args)
   /\ (args.t.some => ArrMax(RawThickness(args)) # Zero)) =>
     FEq(FSub(ret.yu[args.nn], ret.yl[args.nn]), args.tail)

C3_Witness ==
  /\ Returned("cst_foil")
  /\ FGt(args.tail, Zero)
  /\ args.t.some
  /\ FGt(ArrMax(RawThickness(args)), Zero)
  /\ FSub(ret.yu[args.nn], ret.yl[args.nn]) = args.tail

\* C4 as claimed: with tail = 0 and a target thickness t, the maximum of
\* yu[i] - yl[i] equals t and the returned t0 equals t.
C4_Claimed ==
  (Returned("cst_foil") /\ args.tail = Zero /\ args.t.some) =>
     /\ Close(MaxThickness(ret), args.t.v)
     /\ ret.t0 = args.t.v

\* C4 amended: with tail = 0, a target thickness t >= 0 and raw curves whose
\* maximum thickness is positive, the maximum of yu[i] - yl[i] equals t to
\* floating precision and the returned t0 equals t.
C4_TargetThickness ==
  (/\ Returned("cst_foil")
   /\ args.tail = Zero
   /\ args.t.some
   /\ FGe(args.t.v, Zero)
   /\ FGt(ArrMax(RawThickness(args)), Zero)) =>
     /\ Close(MaxThickness(ret), args.t.v)
     /\ ret.t0 = args.t.v

C4_Witness ==
  /\ Returned("cst_foil")
  /\ args.tail = Zero
  /\ args.t.some
  /\ FGt(args.t.v, Zero)
  /\ FGt(ArrMax(RawThickness(args)), Zero)
  /\ ~Close(ArrMax(RawThickness(args)), args.t.v)
  /\ Close(MaxThickness(ret), args.t.v)

\* C5: without a target thickness the returned t0 is the maximum of
\* yu[i] - yl[i] of the returned surfaces (the maximum after the tail is added).
C5_Claimed ==
  (Returned("cst_foil") /\ ~args.t.some) => Close(ret.t0, MaxThickness(ret))

\* the upper curve lies above the lower one at every interior point
UpperAbove(a) ==
  /\ a.nn >= 3
  /\ \A i \in 2..(a.nn - 1) : FGt(RawUpper(a)[i], RawLower(a)[i])

ClosedFoil(r, n) ==
  /\ Len(r.x) = n /\ Len(r.yu) = n /\ Len(r.yl) = n
  /\ r.yu[1] = Zero /\ r.yl[1] = Zero
  /\ r.yu[n] = Zero /\ r.yl[n] = Zero
  /\ FGt(r.t0, Zero)
  /\ IsFin(r.R0) /\ FGt(r.R0, Zero)

\* the ordinates of the two surfaces interpolated at x = 0.005
LeadingEdgeOrdinates(a) ==
  LET s == FoilSurfaces(a.nn, a.coef_upp, a.coef_low, a.x, a.t, a.tail)
  IN  <<interplot_from_curve(XRLE, s.x, s.yu).v, interplot_from_curve(XRLE, s.x, s.yl).v>>

SameOrdinate(le) == FEq(le[1], le[2])

\* C6 as claimed: for tail = 0 and an upper curve above the lower one,
\* cst_foil(n, cu, cl) returns a closed airfoil of n points with t0 > 0 and a
\* finite R0 > 0.
C6_Claimed ==
  (/\ Done("cst_foil")
   /\ ~args.x.some /\ ~args.t.some /\ args.tail = Zero
   /\ UpperAbove(args)) =>
     (ret.err = "" /\ ClosedFoil(ret, args.nn))

\* C6 amended: the same for n >= 4 (cst_foil raises for fewer than 4 points,
\* which the cubic interpolation of the leading-edge radius needs), unless the
\* two surfaces interpolated at x = 0.005 have the same ordinate, when the
\* points-in-one-line error is raised.
C6_ClosedFoil ==
  (/\ Done("cst_foil")
   /\ ~args.x.some /\ ~args.t.some /\ args.tail = Zero
   /\ args.nn >= 4
   /\ UpperAbove(args)) =>
     \/ ret.err = "" /\ ClosedFoil(ret, args.nn)
     \/ ret.err = "line" /\ SameOrdinate(LeadingEdgeOrdinates(args))

C6_Witness ==
  /\ Returned("cst_foil")
  /\ ~args.x.some /\ ~args.t.some /\ args.tail = Zero
  /\ args.nn >= 4
  /\ UpperAbove(args)
  /\ Len(args.coef_upp) = 2
  /\ ClosedFoil(ret, args.nn)

\* C9 as claimed: for every pair of coefficient vectors and n >= 4, cst_foil
\* returns an airfoil without raising, and check_valid reports on it.
C9_Claimed ==
  /\ (Done("cst_foil") /\ args.nn >= 4 /\ ~args.x.some) => ret.err = ""
  /\ pc = "checked" => ret.valid.err = ""

NegativeThickness(r) == \E i \in 1..Len(r.yu) : FLt(r.yu[i], r.yl[i])

\* C9 amended: for n >= 4 on the default sample cst_foil raises only the
\* points-in-one-line error, and only when the two surfaces have the same
\* ordinate at x = 0.005 (as for identical upper and lower curves without tail);
\* every other pair of coefficient vectors, negative thickness included, gives
\* an airfoil, on which check_valid returns its 10 flags.
C9_ImplausibleIsNoError ==
  /\ (Done("cst_foil") /\ args.nn >= 4 /\ ~args.x.some) =>
        /\ ret.err \in {"", "line"}
        /\ ret.err = "line" => SameOrdinate(LeadingEdgeOrdinates(args))
        /\ ret.err = "" =>
             ~SameOrdinate(<<interplot_from_curve(XRLE, ret.x, ret.yu).v,
                             interplot_from_curve(XRLE, ret.x, ret.yl).v>>)
  /\ pc = "checked" =>
        /\ ret.valid.err = ""
        /\ Len(ret.valid.flags) = 10
        /\ \A k \in 1..10 : ret.valid.flags[k] \in {0, 1}

\* an airfoil of negative thickness is returned and flagged by rule 1
C9_Witness ==
  /\ pc = "checked"
  /\ args.nn >= 4
  /\ NegativeThickness(ret)
  /\ ret.valid.err = ""
  /\ ret.valid.flags[1] = 1

Dist(p, q) == FSqrt(FAdd(FSq(FSub(p[1], q[1])), FSq(FSub(p[2], q[2]))))

\* C7: for three non-collinear points find_circle_3p returns the circle through
\* all three: the returned centre is at distance R from p1, p2 and p3.
C7_Claimed ==
  (Done("find_circle_3p") /\ Determinant(args.p1, args.p2, args.p3) # Zero) =>
     /\ ret.err = ""
     /\ Close(Dist(ret.XC, args.p1), ret.R)
     /\ Close(Dist(ret.XC, args.p2), ret.R)
     /\ Close(Dist(ret.XC, args.p3), ret.R)

\* the threshold 1e-20 of the claim
DetTol == Norm(1, -20)

C10_Claimed ==
  Done("foil_bump_modify") =>
     Close(ArrMax(ArrSub(ret.yu, ret.yl)), ArrMax(ArrSub(args.yu, args.yl)))

\* C11: add_bump with a centre xc <= 0 or xc >= 1 does not fail and returns a
\* curve equal element by element to the input y, for the Gaussian and the
\* Hicks-Henne kind.
C11_OutsideCentreKeepsCurve ==
  (Done("add_bump") /\ (FLe(args.xc, Zero) \/ FGe(args.xc, One))) =>
     /\ ret.err = ""
     /\ ret.y = args.y

\* a centre exactly at an end of the interval, where a bump of either kind
\* would have changed the curve
C11_Witness ==
  /\ Returned("add_bump")
  /\ args.xc \in {Zero, One}
  /\ args.kind = "G"
  /\ ret.y = args.y


\* the claim of C12 as stated: check_valid returns 10 flags, each 0 or 1, the
\* last three 0, for every input airfoil
C12_Claimed ==
  Done("check_valid") =>
     /\ ret.err = ""
     /\ Len(ret.flags) = 10
     /\ \A k \in 1..10 : ret.flags[k] \in {0, 1}
     /\ \A k \in 8..10 : ret.flags[k] = 0

\* C12: for an airfoil of at least 3 points check_valid returns a list of
\* exactly 10 flags, each 0 or 1, whose entries for rules 8, 9 and 10 are 0;
\* for an airfoil of fewer than 3 points it raises the error of
\* curve_curvature and returns no list.
C12_TenFlags ==
  Done("check_valid") =>
     IF Len(args.x) >= 3
     THEN /\ ret.err = ""
          /\ Len(ret.flags) = 10
          /\ \A k \in 1..10 : ret.flags[k] \in {0, 1}
          /\ \A k \in 8..10 : ret.flags[k] = 0
     ELSE ret.err = "curvature"

\* an airfoil that violates rules 1, 3 and 7 and still has its reserved flags 0
C12_Witness ==
  /\ Returned("check_valid")
  /\ Len(ret.flags) = 10
  /\ \A k \in {1, 3, 7} : ret.flags[k] = 1
  /\ \A k \in 8..10 : ret.flags[k] = 0

\* C13: the report of check_valid has flag[0] == 1 exactly when some
\* yu[i] - yl[i] is below the tolerance neg_tcri, whatever the other flags are.
C13_Claimed ==
  Returned("check_valid") =>
     (ret.flags[1] = 1 <=>
        \E i \in 1..Len(args.x) : FLt(FSub(args.yu[i], args.yl[i]), args.neg_tcri))


\* the increment of one surface, each coefficient vector on its own
OwnIncrement(x, coef) ==
  IF coef.some THEN cst_curve(Len(x), coef.v, SomeArray(x)).y ELSE Zeros(Len(x))

\* the airfoil with the increments of both vectors, each taken on its own
IncrementedFoil(a) ==
  IncrementWith(a.x, a.yu, a.yl, OwnIncrement(a.x, a.coef_upp),
                OwnIncrement(a.x, a.coef_low), a.t,
                FSub(a.yu[Len(a.yu)], a.yl[Len(a.yl)]))

\* C20: foil_increment accepts None for either incremental coefficient vector
\* independently: it returns without error the airfoil with the increment of
\* the vector that is given and a zero increment for the one that is None.
C20_Claimed ==
  (Done("foil_increment") /\ args.coef_upp.some # args.coef_low.some) =>
     ret = IncrementedFoil(args)

\* the attributes of the object o with every array attribute replaced by the
\* content of its array
View(h, o) ==
  [f \in DOMAIN o |-> IF f \in ArrayFields(o.cls) THEN CoefAt(h, o[f]) ELSE o[f]]

ViewOf(name) == View(heap, sec[name])

\* the step is an in-place change of an array at one of the addresses K
WriteInto(K) == hist'.writes > hist.writes /\ args'.addr \in K

\* a holds a copy of the curves that b.section built, which only copyfrom gives
CopiedCurves ==
  /\ Len(heap[sec.a.xx]) = 4
  /\ Len(heap[sec.a.x]) > 1
  /\ heap[sec.a.x] = heap[sec.b.x]

\* C14: a and b share no array storage: an in-place change of an array that is
\* an attribute of b leaves every attribute of a unchanged, and an in-place
\* change of an array of a leaves every attribute of b unchanged, also after
\* a.copyfrom(b) or b.copyfrom(a).
C14_CopyIsDeep ==
  [][/\ WriteInto(Arrays(sec.b)) => ViewOf("a")' = ViewOf("a")
     /\ WriteInto(Arrays(sec.a)) => ViewOf("b")' = ViewOf("b")]_vars

\* after b.section(...) and a.copyfrom(b), xx[0] = 0.2 on b.xx is seen in b
\* and not in a
C14_Witness ==
  /\ args.fn = "write"
  /\ args.addr = sec.b.xx
  /\ CopiedCurves
  /\ heap[sec.b.xx][1] = Written
  /\ heap[sec.a.xx][1] = Zero

\* C15: the coefficient arrays handed to section and to set_params are stored
\* as copies: an in-place change of an array of the caller leaves the stored
\* coefficients and the curves of both objects unchanged.
C15_StoredAsCopies ==
  [][WriteInto(OwnArraysOf(own)) =>
       /\ ViewOf("a")' = ViewOf("a")
       /\ ViewOf("b")' = ViewOf("b")]_vars

\* after b.section(cst_u, cst_l), cst_u[0] = 0.2 by the caller is not seen in
\* the stored b.cst_u (b.cst of an OpenSection)
C15_Witness ==
  /\ args.fn = "write"
  /\ args.addr = own.cst_u
  /\ heap[own.cst_u][1] = Written
  /\ Len(heap[sec.b.xx]) = 4
  /\ heap[IF sec.b.cls = "Section" THEN sec.b.cst_u ELSE sec.b.cst] = <<Norm(1, -1)>>

\* the step is a call of section on the Section b
SectionStep ==
  /\ hist'.calls > hist.calls
  /\ args'.fn = "section"
  /\ sec.b.cls = "Section"

\* C17: Section.section fails atomically: when the call ends in an error,
\* cst_u, cst_l, xx, yu, yl, thick, RLE, x, y and z of the Section have the
\* values they had before the call.
C17_Claimed ==
  [][(SectionStep /\ ret'.err # "") =>
       \A f \in {"cst_u", "cst_l", "xx", "yu", "yl", "thick", "RLE", "x", "y", "z"} :
          ViewOf("b")'[f] = ViewOf("b")[f]]_vars

\* C18: a call of section on a Section whose thick is None and that has no
\* incremental curves builds the unscaled CST curves plus tail and leaves thick
\* None, so that the same holds for the next call.
C18_Claimed ==
  [][(SectionStep /\ ret'.err = "" /\ ~sec.b.thick.some /\ sec.b.refine_u = None
        /\ sec.b.refine_l = None) =>
       /\ ~sec'.b.thick.some
       /\ heap'[sec'.b.yu] =
            cst_foil(args'.nn, heap'[sec'.b.cst_u], heap'[sec'.b.cst_l], NoArray, NoFloat,
                     sec'.b.tail).yu]_vars

\* C19: the first call of section, with flip_x=True, on a new Section or
\* OpenSection ends without error and leaves in xx the default sample in
\* reverse order.
C19_Claimed ==
  (args.fn = "section" /\ args.flip_x /\ hist.calls = 1) =>
     /\ ret.err = ""
     /\ heap[sec.b.xx] = Reversed(DefaultSample(args.nn))

\* C16: every array that cst_curve and cst_foil return is a new array: none is
\* an array that the caller passed, also when the caller passed a sample x.
C16_Claimed ==
  (pc = "done" /\ hist.calls = 1 /\ sec = <<>> /\ ret.err = "") =>
     {own.x2, own.yu, own.yl} \cap {own.coef_upp, own.coef_low, own.x} \subseteq {None}

\* C21: for every nn >= 2 and 0 < a0 < a1 < 1 the values clustcos(i, nn, a0, a1,
\* beta), i = 0..nn-1, are strictly increasing, the first is 0 and the last is 1.
C21_Claimed ==
  Done("clustcos") =>
     /\ ret.c[1] = Zero
     /\ ret.c[args.nn] = One
     /\ StrictlyIncreasing(ret.c)

\* the tolerance of the fit for ordinates, which are of size 0.1
FitTol == <<1000, -6>>

\* the tolerance for the fitted coefficients, which are of size 0.1
CoefTol == <<5000, -6>>

Within(u, v, tol) ==
  /\ Len(u) = Len(v)
  /\ \A i \in 1..Len(u) : FLe(FAbs(FSub(u[i], v[i])), tol)

\* cst_curve on the fitted coefficients reproduces y at every sample point
CurveRefitted == Within(cst_curve(args.nn, ret.coef, NoArray).y, args.y, FitTol)

\* C22 as stated: the round trip reproduces y within the tolerance, and the
\* fitted coefficients equal coef when nn >= len(coef).
C22_Claimed ==
  Done("fit_curve") =>
     /\ CurveRefitted
     /\ args.nn >= Len(args.coef) => Within(ret.coef, args.coef, CoefTol)

\* C22: the round trip reproduces y at every sample point within the
\* tolerance, and the fitted coefficients equal coef when the curve has at
\* least len(coef) points besides its two end points, nn >= len(coef) + 2.
C22_RoundTrip ==
  Done("fit_curve") =>
     /\ CurveRefitted
     /\ args.nn >= Len(args.coef) + 2 => Within(ret.coef, args.coef, CoefTol)

\* a fit of two coefficients of different size on five points that returns
\* them, and not exactly
C22_Witness ==
  /\ Done("fit_curve")
  /\ args.nn = 5
  /\ args.coef = <<Norm(1, -1), Norm(2, -1)>>
  /\ ret.coef # args.coef
  /\ Within(ret.coef, args.coef, CoefTol)
  /\ CurveRefitted

\* the interior indices of the points given to curve_curvature
Interior == 2..(Len(args.x) - 1)

\* relative tolerance for a curvature computed from rounded side lengths
CurvClose(a, b) == FLe(FAbs(FSub(a, b)), FMul(Norm(5, -2), FAbs(b)))

\* the curvature 1/R, positive for counter-clockwise traversal
CircleCurvature(a) == IF a.ccw THEN FDiv(One, a.R) ELSE FNeg(FDiv(One, a.R))

AboutCircle(curv, a) == \A k \in 2..(Len(curv) - 1) : CurvClose(curv[k], CircleCurvature(a))

\* the same circle sampled with the next coarser stride
Coarser(a, c) == CircleSample(a.R, a.s, a.d + 1, a.ccw, Len(a.x), c)

\* a sampling is about 1/R whenever the next coarser sampling of the circle is
FinerNoWorse ==
  args.d + 1 \in CircleStrides
    /\ AboutCircle(curve_curvature(Coarser(args, 1), Coarser(args, 2)).curv, args)
  => AboutCircle(ret.curv, args)

\* the refinement part alone
CircleRefined == Returned("curve_curvature") /\ args.on = "circle" /\ Len(args.x) > 2 => FinerNoWorse

\* C23: for points sampled in order from a circle of radius R, curve_curvature
\* returns at every interior point a value of magnitude about 1/R with the sign
\* of the traversal orientation, and a finer sampling is about 1/R whenever a
\* coarser sampling of the same circle is
C23_Claimed ==
  Returned("curve_curvature") /\ args.on = "circle" =>
    /\ AboutCircle(ret.curv, args)
    /\ FinerNoWorse

\* the sides of the triangle at interior index k multiply to more than 1.0E-12
AboveCurvTol(x, y, k) ==
  FGt(FMul(FMul(Norm2(<<x[k - 1], y[k - 1]>>, <<x[k], y[k]>>),
                Norm2(<<x[k], y[k]>>, <<x[k + 1], y[k + 1]>>)),
           Norm2(<<x[k + 1], y[k + 1]>>, <<x[k - 1], y[k - 1]>>)), CurvTol)

\* what holds: on a sampled circle the curvature is about 1/R with the sign of
\* the orientation at every interior point whose triangle is above the threshold
CircleAboveTol ==
  Returned("curve_curvature") /\ args.on = "circle" =>
    \A k \in Interior : AboveCurvTol(args.x, args.y, k) => CurvClose(ret.curv[k], CircleCurvature(args))

\* it = np.argmax(thick) of the raw curves of a cst_foil call
RawArgMax(a) == ArgMax(RawThickness(a))

\* yu[it] - yl[it] of the returned airfoil
ThicknessAtRawMax == FSub(ret.yu[RawArgMax(args)], ret.yl[RawArgMax(args)])

\* C24: in cst_foil with a target thickness t and tail >= 0 the returned
\* airfoil has yu[it] - yl[it] equal to t at the index it of the pre-scaling
\* maximum thickness.
C24_Claimed ==
  (Returned("cst_foil") /\ args.t.some /\ FGe(args.tail, Zero)) =>
     Close(ThicknessAtRawMax, args.t.v)

\* C24 amended: with a target thickness t, tail >= 0 and raw curves whose
\* maximum thickness is positive, the returned airfoil has yu[it] - yl[it]
\* equal to t, to floating precision, at the index it of the pre-scaling maximum.
C24_ThicknessAtMax ==
  (/\ Returned("cst_foil")
   /\ args.t.some
   /\ FGe(args.tail, Zero)
   /\ FGt(ArrMax(RawThickness(args)), Zero)) =>
     Close(ThicknessAtRawMax, args.t.v)

C24_Witness ==
  /\ Returned("cst_foil")
  /\ args.t.some
  /\ FGt(args.tail, Zero)
  /\ FGt(ArrMax(RawThickness(args)), Zero)
  /\ FGt(ret.x[RawArgMax(args)], Zero)
  /\ ~Close(ArrMax(RawThickness(args)), args.t.v)
  /\ Close(ThicknessAtRawMax, args.t.v)

\* the points k-1, k, k+1 are collinear or two of them coincide: the cross
\* product of X2 - X1 and X3 - X1 is zero
Degenerate(x, y, k) ==
  FMul(FSub(x[k], x[k - 1]), FSub(y[k + 1], y[k - 1]))
    = FMul(FSub(y[k], y[k - 1]), FSub(x[k + 1], x[k - 1]))

\* C25: curve_curvature returns curvature 0 at an interior point exactly when
\* the points before, at and after it are degenerate (collinear, or two of
\* them coincide); for a non-degenerate triple the curvature is non-zero.
C25_Claimed ==
  Returned("curve_curvature") =>
    \A k \in Interior : (ret.curv[k] = Zero) <=> Degenerate(args.x, args.y, k)

\* one direction: a non-degenerate triple above the threshold has a non-zero curvature
NonDegenerateAboveTol ==
  Returned("curve_curvature") =>
    \A k \in Interior :
      ~Degenerate(args.x, args.y, k) /\ AboveCurvTol(args.x, args.y, k) => ret.curv[k] # Zero

\* the other direction: a degenerate triple has curvature 0
DegenerateIsFlat ==
  Returned("curve_curvature") =>
    \A k \in Interior : Degenerate(args.x, args.y, k) => ret.curv[k] = Zero

\* s0 = np.log(0.5)/np.log(xc) of an add_bump call
BumpExponent(a) == FDiv(FLn(Half), FLn(a.xc))

\* the smallest power p >= from whose 1%-of-peak width on the grid is at most s,
\* or 100 when no power below 100 qualifies
RECURSIVE FirstWithin(_, _, _, _, _)
FirstWithin(from, s, base, hm, xc) ==
  IF from >= PowCap THEN PowCap
  ELSE IF FLe(BumpSpan(base, hm, from, xc), s) THEN from
  ELSE FirstWithin(from + 1, s, base, hm, xc)

\* the power the claim names, for the arguments a
ClaimedPow(a) == FirstWithin(1, a.s, GridBase(BumpExponent(a)), FAbs(a.h), a.xc)

\* the power the while loop ends with, for the arguments a
AppliedPow(a) == PowSearch(1, One, a.s, GridBase(BumpExponent(a)), FAbs(a.h), a.xc)

HicksHenneCall == Returned("add_bump") /\ args.kind = "H" /\ ~CentreOutside(args.xc)

\* C26: for the Hicks-Henne kind the power applied to the bump is the smallest
\* integer p >= 1 whose 1%-of-peak width on the 201-point grid is at most the
\* span s, or 100 when no smaller power qualifies; p never exceeds 100.
C26_Claimed ==
  HicksHenneCall =>
    /\ ret.y = HicksHenneBump(args.x, args.y, args.h, BumpExponent(args), ClaimedPow(args))
    /\ ClaimedPow(args) <= PowCap

\* what the loop does: for s < 1 the applied power is one more than the
\* smallest qualifying power, and at most 100
AppliedIsNext ==
  HicksHenneCall /\ FLt(args.s, One) =>
    /\ AppliedPow(args) = IF ClaimedPow(args) < PowCap THEN ClaimedPow(args) + 1 ELSE PowCap
    /\ ret.y = HicksHenneBump(args.x, args.y, args.h, BumpExponent(args), AppliedPow(args))

\* the number of interior points from index i on where the finite differences
\* of the thickness before and after the point have opposite signs
RECURSIVE SignChanges(_, _)
SignChanges(thickness, i) ==
  IF i > Len(thickness) - 1 THEN 0
  ELSE (IF FLt(FMul(FSub(thickness[i + 1], thickness[i]),
                    FSub(thickness[i], thickness[i - 1])), Zero)
        THEN 1 ELSE 0)
       + SignChanges(thickness, i + 1)

\* C27: check_valid sets flag[2] (rule 3) to 1 exactly when the thickness
\* yu - yl has more than 2 local extrema, an extremum being a sign change
\* between consecutive finite differences; a zero difference is no sign change.
C27_Claimed ==
  Returned("check_valid") =>
    (ret.flags[3] = 1 <=> SignChanges(ArrSub(args.yu, args.yl), 2) > 2)

\* what rule 3 counts: the interior points where the product of the two
\* differences is negative or zero
RECURSIVE ChangesOrFlats(_, _)
ChangesOrFlats(thickness, i) ==
  IF i > Len(thickness) - 1 THEN 0
  ELSE (IF FLe(FMul(FSub(thickness[i + 1], thickness[i]),
                    FSub(thickness[i], thickness[i - 1])), Zero)
        THEN 1 ELSE 0)
       + ChangesOrFlats(thickness, i + 1)

Rule3CountsFlats ==
  Returned("check_valid") =>
    (ret.flags[3] = 1 <=> ChangesOrFlats(ArrSub(args.yu, args.yl), 2) > 2)

\* the names under which the caller holds the arrays it passes
InputNames == {"x", "yu", "yl", "coef_upp", "coef_low"}

InputsKept == \A f \in InputNames : heap[own[f]] = args[f]

\* C28: after add_bump, foil_bump_modify, foil_increment, fit_curve, cst_foil
\* or check_valid returns or fails, every element of the x, y, yu, yl and
\* coefficient arrays passed in equals its value before the call.
C28_InputsUnchanged ==
  pc = "done" /\ args.fn \in {p.fn : p \in InputCalls} => InputsKept

\* add_bump returned a curve that differs from the y it was given
C28_Witness ==
  /\ Returned("add_bump")
  /\ args.fn \in {p.fn : p \in InputCalls}
  /\ heap[ret.out[1]] # args.yu
  /\ InputsKept

\* the step is a call of section on the Section b with the arguments of the
\* call before it, which was a call of section too and ended without error
SectionAgain ==
  /\ SectionStep
  /\ args.fn = "section"
  /\ args' = args
  /\ ret.err = ""
  /\ ret'.err = ""

BuiltFields == {"xx", "yu", "yl", "thick", "RLE", "x", "y", "z"}

\* C29: calling section() twice in a row with the same arguments and no
\* set_params in between leaves xx, yu, yl, thick, RLE, x, y, z equal to their
\* values after the first call, for every initial thick and every tail >= 0.
C29_Claimed ==
  [][SectionAgain => \A f \in BuiltFields : ViewOf("b")'[f] = ViewOf("b")[f]]_vars

\* what holds: the second call changes nothing when tail is 0
IdempotentWithoutTail ==
  [][SectionAgain /\ sec.b.tail = Zero =>
       \A f \in BuiltFields : ViewOf("b")'[f] = ViewOf("b")[f]]_vars

\* the step is a call of copyfrom
CopyStep == hist'.calls > hist.calls /\ args'.fn = "copyfrom"

\* the attributes of an object that are parameters or arrays
StateFields(cls) ==
  IF cls = "Section"
  THEN {"xLE", "yLE", "zLE", "chord", "twist", "thick", "tail", "RLE", "cst_u", "cst_l",
        "xx", "yu", "yl", "x", "y", "z", "refine_fixed_t", "refine_u", "refine_l"}
  ELSE {"xLE", "yLE", "zLE", "chord", "twist", "thick", "cst", "xx", "yy", "x", "y", "z",
        "refine"}

\* C30: after a.copyfrom(b) every parameter and array field of a equals the
\* corresponding field of b, for Section and for OpenSection; copyfrom with an
\* object of another type fails and leaves a as it was.
C30_Claimed ==
  [][CopyStep =>
       IF args'.other = "foreign"
       THEN ret'.err # "" /\ View(heap', sec'[args'.obj]) = View(heap, sec[args'.obj])
       ELSE /\ ret'.err = ""
            /\ \A f \in StateFields(sec[args'.obj].cls) :
                 View(heap', sec'[args'.obj])[f] = View(heap', sec'[args'.other])[f]]_vars

\* what holds: the claim for Section, and for OpenSection every field but thick
CopiesAllButOpenThick ==
  [][CopyStep =>
       IF args'.other = "foreign"
       THEN ret'.err # "" /\ View(heap', sec'[args'.obj]) = View(heap, sec[args'.obj])
       ELSE /\ ret'.err = ""
            /\ \A f \in StateFields(sec[args'.obj].cls) :
                 sec[args'.obj].cls = "Section" \/ f # "thick" =>
                   View(heap', sec'[args'.obj])[f] = View(heap', sec'[args'.other])[f]]_vars

====
